---- MODULE Spec2Model ----
(***************************************************************************)
(* NOWA V3 planning engine: generate_plan_task -> Providers.get_weather -> *)
(* V3PlannerEngine.generate (choose_template, _build_slots, _rank_slots,   *)
(* SlotLLM.fill, _materialize_stops, order_stops_nearest_neighbor) ->      *)
(* persistence of stops.                                                   *)
(*                                                                         *)
(* Time is counted in minutes from a Sunday 00:00 (local time).  Tri-state *)
(* Python values (True / False / None) are the strings "True", "False",    *)
(* "None".  Scores are integers: the place table only holds ratings,       *)
(* review counts and distances for which the float arithmetic of           *)
(* score_place_for_slot is exact.                                          *)
(***************************************************************************)
EXTENDS Integers, Sequences, FiniteSets, TLC

\* ------------------------------------------------------------------ bounds
\* how many picks the language model may hand back per slot beyond the
\* missing / foreign ones: the first MaxLLMChoice options of the slot
MaxLLMChoice == 2
\* task runs of one plan (first run + retries)
MaxRuns == 6
\* the longest stop list ordered on its own
MaxStops == 4
MaxIncrCalls == 2

NoValue == "None"

\* ------------------------------------------------------------ seq helpers
RECURSIVE SumSeq(_)
SumSeq(s) == IF s = <<>> THEN 0 ELSE Head(s) + SumSeq(Tail(s))

Range(s) == {s[i] : i \in 1..Len(s)}

Contains(s, x) == \E i \in 1..Len(s) : s[i] = x

Min2(a, b) == IF a <= b THEN a ELSE b
Max2(a, b) == IF a >= b THEN a ELSE b

\* list(dict.fromkeys(s)): first occurrence of every element, order kept
RECURSIVE DedupKeepFirst(_)
DedupKeepFirst(s) ==
    IF s = <<>> THEN <<>>
    ELSE LET init == DedupKeepFirst(SubSeq(s, 1, Len(s) - 1))
             last == s[Len(s)]
         IN  IF Contains(init, last) THEN init ELSE Append(init, last)

\* s[:n] for n >= 0
Prefix(s, n) == SubSeq(s, 1, Min2(n, Len(s)))

\* ----------------------------------------------------------- presets.py
SlotSpec(slot_id, duration_min, categories, constraints, role) ==
    [slot_id |-> slot_id, duration_min |-> duration_min,
     categories |-> categories, constraints |-> constraints, role |-> role]

INTENT_TEMPLATES ==
    [highlights_tour |-> <<
        SlotSpec("landmark_1", 60, <<"landmark", "monument", "tourist_attraction">>, <<>>, "reward"),
        SlotSpec("photo_stop_1", 20, <<"viewpoint", "observation_deck", "photo_spot">>, <<>>, "nice"),
        SlotSpec("museum", 90, <<"museum", "art_gallery">>, <<"indoor">>, "reward"),
        SlotSpec("coffee_break", 30, <<"cafe", "bakery">>, <<"warm">>, "anchor"),
        SlotSpec("landmark_2", 50, <<"landmark", "historic_site", "castle">>, <<>>, "reward"),
        SlotSpec("viewpoint", 25, <<"viewpoint", "scenic_spot">>, <<>>, "optional") >>,
     chill_evening |-> <<
        SlotSpec("drinks", 75, <<"bar", "cocktail_bar", "wine_bar", "hotel_bar">>, <<"indoor", "quiet">>, "anchor"),
        SlotSpec("late_food", 40, <<"late_food", "fast_food">>, <<"quick">>, "reward") >>,
     shop_local |-> <<
        SlotSpec("shopping_cluster", 90, <<"shopping_area", "market", "boutique", "concept_store", "vintage">>, <<>>, "anchor"),
        SlotSpec("coffee_break", 25, <<"cafe", "bakery">>, <<"warm">>, "nice"),
        SlotSpec("photo_stop", 25, <<"photo_spot", "viewpoint", "street_art">>, <<>>, "optional") >>,
     museum_day |-> <<
        SlotSpec("museum", 110, <<"museum">>, <<"indoor">>, "reward"),
        SlotSpec("coffee_break", 30, <<"cafe", "bakery">>, <<"warm">>, "anchor") >>,
     culture_alt_late |-> <<
        SlotSpec("culture_alt", 75, <<"cultural_bar", "jazz_bar", "cinema", "theater">>, <<"indoor", "quiet">>, "reward"),
        SlotSpec("late_coffee", 35, <<"dessert", "cafe">>, <<"warm">>, "anchor") >>,
     food_tour |-> <<
        SlotSpec("street_food", 35, <<"street_food", "food_truck", "market_stall">>, <<>>, "anchor"),
        SlotSpec("local_restaurant", 75, <<"local_restaurant", "traditional_food", "ethnic_restaurant">>, <<>>, "reward"),
        SlotSpec("dessert_spot", 30, <<"dessert", "bakery", "ice_cream", "patisserie">>, <<>>, "nice") >>,
     coffee_hop |-> <<
        SlotSpec("specialty_coffee_1", 40, <<"specialty_coffee", "roastery", "third_wave_coffee">>, <<"indoor", "quiet">>, "anchor"),
        SlotSpec("pastry", 30, <<"bakery", "patisserie">>, <<>>, "nice"),
        SlotSpec("specialty_coffee_2", 35, <<"cafe", "specialty_coffee">>, <<>>, "optional") >>,
     nightlife |-> <<
        SlotSpec("pre_drinks", 60, <<"cocktail_bar", "wine_bar", "rooftop_bar">>, <<"indoor">>, "anchor"),
        SlotSpec("club", 120, <<"nightclub", "dance_club">>, <<>>, "reward"),
        SlotSpec("late_night_food", 30, <<"late_food", "kebab", "pizza", "fast_food">>, <<>>, "nice") >>,
     outdoor_active |-> <<
        SlotSpec("scenic_walk", 50, <<"park", "trail", "waterfront">>, <<"outdoor">>, "anchor"),
        SlotSpec("viewpoint", 25, <<"viewpoint", "observation_deck">>, <<"outdoor">>, "reward"),
        SlotSpec("outdoor_cafe", 35, <<"cafe">>, <<"prefer_terrace">>, "nice") >>,
     romantic_date |-> <<
        SlotSpec("romantic_dinner", 90, <<"fine_dining", "upscale_restaurant", "romantic_restaurant">>, <<"quiet", "indoor">>, "reward"),
        SlotSpec("sunset_spot", 30, <<"viewpoint", "waterfront", "rooftop", "scenic_spot">>, <<"outdoor">>, "anchor"),
        SlotSpec("cocktail_lounge", 60, <<"cocktail_bar", "lounge", "speakeasy">>, <<"quiet", "indoor">>, "nice") >>]

TemplateKeys == DOMAIN INTENT_TEMPLATES

INTENT_TO_TEMPLATE ==
    [chill |-> "chill_evening", drink |-> "chill_evening", drinks |-> "chill_evening",
     highlights |-> "highlights_tour", sightseeing |-> "highlights_tour",
     tourist |-> "highlights_tour", landmarks |-> "highlights_tour",
     shop_local |-> "shop_local", shopping |-> "shop_local", shop |-> "shop_local",
     museum |-> "museum_day", culture |-> "museum_day", art |-> "museum_day",
     food |-> "food_tour", food_tour |-> "food_tour", eat |-> "food_tour", foodie |-> "food_tour",
     coffee |-> "coffee_hop", coffee_hop |-> "coffee_hop", cafe |-> "coffee_hop",
     nightlife |-> "nightlife", party |-> "nightlife", dance |-> "nightlife",
     club |-> "nightlife", night |-> "nightlife",
     outdoor |-> "outdoor_active", walk |-> "outdoor_active", hike |-> "outdoor_active",
     nature |-> "outdoor_active", active |-> "outdoor_active",
     date |-> "romantic_date", romantic |-> "romantic_date", romance |-> "romantic_date"]

INTENT_FALLBACK_TEMPLATE == [museum |-> "culture_alt_late"]

\* energy multiplier in tenths (0.8, 1.0, 1.2)
energy_multipliers(energy_level) ==
    CASE energy_level = "low" -> 8
      [] energy_level = "medium" -> 10
      [] energy_level = "high" -> 12
      [] OTHER -> 10

\* position of the role in priority_order, 99 for an unknown role
RolePriority(role) ==
    CASE role = "reward" -> 0
      [] role = "anchor" -> 1
      [] role = "nice" -> 2
      [] role = "optional" -> 3
      [] OTHER -> 99

\* sorted(base_slots, key=priority): Python's sort is stable
SortByRole(slots) ==
    LET Pick(k) == SelectSeq(slots, LAMBDA s : RolePriority(s.role) = k)
    IN  Pick(0) \o Pick(1) \o Pick(2) \o Pick(3) \o Pick(99)

\* list.insert(-1, x): before the last element (at the front of an empty or
\* one-element list)
InsertBeforeLast(s, x) ==
    IF Len(s) = 0 THEN <<x>>
    ELSE SubSeq(s, 1, Len(s) - 1) \o <<x>> \o <<s[Len(s)]>>

\* f"landmark_{ideal_slot_count}"
LandmarkId(n) ==
    CASE n = 7 -> "landmark_7"
      [] n = 8 -> "landmark_8"
      [] n = 9 -> "landmark_9"
      [] n = 10 -> "landmark_10"
      [] n = 11 -> "landmark_11"
      [] n = 12 -> "landmark_12"
      [] n = 13 -> "landmark_13"
      [] n = 14 -> "landmark_14"
      [] n = 15 -> "landmark_15"
      [] n = 16 -> "landmark_16"
      [] OTHER -> "landmark_n"

ScaleDuration(s, mult10) ==
    [s EXCEPT !.duration_min = (s.duration_min * mult10) \div 10]

\* the body of adjust_template_for_duration once base_slots is looked up;
\* duration_hours is a whole number of hours
AdjustSlots(base_slots, template_key, duration_hours, energy_level) ==
    LET total_slot_minutes == SumSeq([i \in 1..Len(base_slots) |-> base_slots[i].duration_min])
        multiplier == energy_multipliers(energy_level)
        duration_minutes == duration_hours * 60
        \* int(duration_minutes / (avg_slot_duration * multiplier)), with
        \* avg_slot_duration = total / len, and 60 for an empty list
        ideal_slot_count ==
            IF base_slots = <<>>
            THEN (duration_minutes * 10) \div (60 * multiplier)
            ELSE (duration_minutes * Len(base_slots) * 10) \div (total_slot_minutes * multiplier)
        extra_landmark ==
            SlotSpec(LandmarkId(ideal_slot_count), 50,
                     <<"landmark", "tourist_attraction", "historic_site">>, <<>>, "nice")
        adjusted_slots ==
            IF ideal_slot_count < Len(base_slots)
            THEN Prefix(SortByRole(base_slots), ideal_slot_count)
            ELSE IF ideal_slot_count > Len(base_slots) /\ template_key = "highlights_tour"
                 THEN InsertBeforeLast(base_slots, extra_landmark)
                 ELSE base_slots
    IN  IF multiplier # 10
        THEN [i \in 1..Len(adjusted_slots) |-> ScaleDuration(adjusted_slots[i], multiplier)]
        ELSE adjusted_slots

adjust_template_for_duration(template_key, duration_hours, energy_level) ==
    AdjustSlots(IF template_key \in TemplateKeys
                THEN INTENT_TEMPLATES[template_key]
                ELSE INTENT_TEMPLATES["chill_evening"],
                template_key, duration_hours, energy_level)

\* str.strip().lower() on the spellings the inputs below use; every other
\* string is lower-case without blanks around it already
StripLower(str) ==
    CASE str = "Museum" -> "museum"
      [] str = " walk " -> "walk"
      [] str = "PARTY" -> "party"
      [] str = "Picnic" -> "picnic"
      [] str = "Tonight" -> "tonight"
      [] OTHER -> str

\* choose_template without the late-hour rule for outdoor, walk and hike
choose_template_keeps_outdoor_late(intent, when_selection, hour, duration_hours, energy) ==
    LET intent1 == StripLower(IF intent = "" THEN "chill" ELSE intent)
        when1 == StripLower(IF when_selection = "" THEN "now" ELSE when_selection)
        k0 == IF intent1 \in DOMAIN INTENT_TO_TEMPLATE
              THEN INTENT_TO_TEMPLATE[intent1] ELSE "chill_evening"
        k1 == IF intent1 = "museum" /\ (hour >= 18 \/ hour <= 6 \/ when1 = "tonight")
              THEN INTENT_FALLBACK_TEMPLATE["museum"] ELSE k0
        base_key == IF when1 = "tonight" /\ intent1 \in {"party", "dance", "club"}
                    THEN "nightlife" ELSE k1
    IN  [key |-> base_key,
         slots |-> adjust_template_for_duration(base_key, duration_hours, energy)]

choose_template(intent, when_selection, hour, duration_hours, energy) ==
    LET intent1 == StripLower(IF intent = "" THEN "chill" ELSE intent)
        when1 == StripLower(IF when_selection = "" THEN "now" ELSE when_selection)
        k0 == IF intent1 \in DOMAIN INTENT_TO_TEMPLATE
              THEN INTENT_TO_TEMPLATE[intent1] ELSE "chill_evening"
        k1 == IF intent1 = "museum" /\ (hour >= 18 \/ hour <= 6 \/ when1 = "tonight")
              THEN INTENT_FALLBACK_TEMPLATE["museum"] ELSE k0
        k2 == IF when1 = "tonight" /\ intent1 \in {"party", "dance", "club"}
              THEN "nightlife" ELSE k1
        base_key == IF intent1 \in {"outdoor", "walk", "hike"} /\ (hour >= 21 \/ hour <= 6)
                    THEN "chill_evening" ELSE k2
    IN  [key |-> base_key,
         slots |-> adjust_template_for_duration(base_key, duration_hours, energy)]

\* -------------------------------------------------------- time_rules.py
NoTemp == -999

\* a weather snapshot; has_feels_like tells whether the key is present
\* (weather.get("feels_like", temp) only falls back to temp when it is not)
Weather(temp, has_feels_like, feels_like, condition, is_raining, is_snowing, confidence, source) ==
    [temp |-> temp, has_feels_like |-> has_feels_like, feels_like |-> feels_like,
     condition |-> condition, is_raining |-> is_raining, is_snowing |-> is_snowing,
     windy |-> FALSE, confidence |-> confidence, source |-> source]

\* `word in cond` for the lower-cased condition strings the model uses
CondContains(cond, word) ==
    <<cond, word>> \in {<<"rain", "rain">>, <<"light rain", "rain">>,
                        <<"drizzle", "drizzle">>, <<"snow", "snow">>,
                        <<"wind", "wind">>, <<"windy", "wind">>}

build_weather_profile(weather) ==
    LET temp == weather.temp
        feels == IF weather.has_feels_like THEN weather.feels_like ELSE temp
        cond == weather.condition
        rain == weather.is_raining \/ CondContains(cond, "rain") \/ CondContains(cond, "drizzle")
        snow == weather.is_snowing \/ CondContains(cond, "snow")
        windy == weather.windy \/ CondContains(cond, "wind")
    IN  IF feels = NoTemp
        THEN [cold |-> FALSE, very_cold |-> FALSE, rain |-> rain, snow |-> snow,
              windy |-> windy, pleasant |-> TRUE, confidence |-> weather.confidence]
        ELSE [cold |-> feels <= 8, very_cold |-> feels <= 2, rain |-> rain, snow |-> snow,
              windy |-> windy,
              pleasant |-> (10 <= feels /\ feels <= 22) /\ ~rain /\ ~snow /\ ~windy,
              confidence |-> weather.confidence]

HourOf(dt) == (dt % 1440) \div 60

get_daypart(dt) ==
    LET h == HourOf(dt)
    IN  IF 6 <= h /\ h < 11 THEN "morning"
        ELSE IF 11 <= h /\ h < 15 THEN "midday"
        ELSE IF 15 <= h /\ h < 18 THEN "afternoon"
        ELSE IF 18 <= h /\ h < 22 THEN "evening"
        ELSE "late"

CATEGORY_DAYPART_ALLOWED ==
    [bar |-> {"evening", "late"},
     cocktail_bar |-> {"evening", "late"},
     wine_bar |-> {"evening", "late"},
     hotel_bar |-> {"evening", "late"},
     nightclub |-> {"late"},
     museum |-> {"morning", "midday", "afternoon"},
     shopping_area |-> {"morning", "midday", "afternoon", "evening"},
     market |-> {"morning", "midday", "afternoon"},
     boutique |-> {"morning", "midday", "afternoon", "evening"},
     concept_store |-> {"morning", "midday", "afternoon", "evening"},
     vintage |-> {"morning", "midday", "afternoon", "evening"},
     cafe |-> {"morning", "midday", "afternoon", "evening"},
     bakery |-> {"morning", "midday", "afternoon"},
     dessert |-> {"afternoon", "evening", "late"},
     late_food |-> {"late"},
     fast_food |-> {"midday", "afternoon", "evening", "late"},
     cinema |-> {"evening", "late", "afternoon"},
     theater |-> {"evening", "late"},
     jazz_bar |-> {"evening", "late"},
     cultural_bar |-> {"evening", "late"},
     photo_spot |-> {"morning", "midday", "afternoon", "evening"},
     viewpoint |-> {"morning", "midday", "afternoon", "evening"},
     street_art |-> {"morning", "midday", "afternoon", "evening"}]

is_category_suitable(category, daypart) ==
    IF category \notin DOMAIN CATEGORY_DAYPART_ALLOWED THEN TRUE
    ELSE daypart \in CATEGORY_DAYPART_ALLOWED[category]

OpenStatus(is_open, confidence, reason) ==
    [is_open |-> is_open, confidence |-> confidence, reason |-> reason]

\* Python weekday() is Monday=0..Sunday=6; minute 0 of the model is a Sunday
PyWeekday(dt) == ((dt \div 1440) + 6) % 7

_weekday_google(dt) == (PyWeekday(dt) + 1) % 7

\* "1730" -> 17:30; the four digits are the number hhmm, anything that is
\* not four digits (here: a negative number) parses as 00:00
_parse_hhmm(hhmm) ==
    IF hhmm < 0 THEN [hour |-> 0, minute |-> 0]
    ELSE [hour |-> hhmm \div 100, minute |-> hhmm % 100]

_dt_at_local_date(dt, t) == (dt \div 1440) * 1440 + t.hour * 60 + t.minute

\* one opening-hours period; has_open / has_close: the sub-dict is usable
Period(oday, otime, cday, ctime) ==
    [has_open |-> TRUE, oday |-> oday, otime |-> otime,
     has_close |-> TRUE, cday |-> cday, ctime |-> ctime]

PeriodInterval(p, start_dt) ==
    LET wd == _weekday_google(start_dt)
        o_time == _parse_hhmm(p.otime)
        c_time == _parse_hhmm(p.ctime)
        delta_open_days == (p.oday - wd) % 7
        open_dt == _dt_at_local_date(start_dt + delta_open_days * 1440, o_time)
        delta_close_days == (p.cday - wd) % 7
        close_dt0 == _dt_at_local_date(start_dt + delta_close_days * 1440, c_time)
        close_dt == IF close_dt0 <= open_dt THEN close_dt0 + 1440 ELSE close_dt0
    IN  [open_dt |-> open_dt, close_dt |-> close_dt]

\* place.periods = <<>> stands for opening_hours or its periods missing
compute_open_status(place, start_dt, duration_min) ==
    LET periods == place.periods
        end_dt == start_dt + duration_min
        usable == SelectSeq(periods, LAMBDA p : p.has_open /\ p.has_close)
        intervals == [i \in 1..Len(usable) |-> PeriodInterval(usable[i], start_dt)]
    IN  IF periods = <<>> THEN OpenStatus("None", "low", "hours_missing")
        ELSE IF intervals = <<>> THEN OpenStatus("None", "low", "hours_unusable")
        ELSE IF \E i \in 1..Len(intervals) :
                    intervals[i].open_dt <= start_dt /\ end_dt <= intervals[i].close_dt
             THEN OpenStatus("True", "high", "open_for_slot")
        ELSE IF \E i \in 1..Len(intervals) :
                    /\ intervals[i].open_dt <= start_dt
                    /\ start_dt < intervals[i].close_dt
                    /\ end_dt > intervals[i].close_dt
             THEN OpenStatus("True", "medium", "open_but_closing_during_slot")
        ELSE OpenStatus("False", "high", "closed_for_slot")

\* ------------------------------------------------------------ scoring.py
\* the score in tenths of a point.  rating is a whole number, reviews a
\* multiple of 500, distance_m a multiple of 60: the float sums are exact.
score_place_for_slot(place, slot_categories, daypart, discovery_mode, constraints, open_status, distance_m) ==
    LET category == place.category
        rating == place.rating
        reviews == place.user_ratings_total
        s_open == IF open_status.is_open = "True"
                  THEN 150 - (IF open_status.confidence = "medium" THEN 50 ELSE 0)
                  ELSE -30
        s_cat == IF Contains(slot_categories, category) THEN 300 ELSE 50
        s_daypart == IF category # "" /\ ~is_category_suitable(category, daypart)
                     THEN -250 ELSE 0
        s_quality == Min2(rating, 5) * 60 + Min2(reviews \div 500, 6) * 12
        s_mode == IF discovery_mode = "local"
                  THEN (IF place.tourist_density >= 2 THEN -100 ELSE 0)
                       + (IF place.local_favorite THEN 80 ELSE 0)
                  ELSE 20
        \* not place.get("is_indoor", True); "None" is a record without the key,
        \* for which get() answers the default True
        s_indoor == IF Contains(constraints, "indoor_only") /\ place.is_indoor = "False"
                    THEN -500 ELSE 0
        s_quiet == IF Contains(constraints, "quiet")
                   THEN -(Max2(0, place.noise_level - 2) * 40) ELSE 0
        s_nowalk == IF Contains(constraints, "no_walk")
                    THEN -Min2(distance_m \div 20, 150) ELSE 0
        s_dist == -Min2(distance_m \div 30, 100)
    IN  IF open_status.is_open = "False" THEN -100000
        ELSE s_open + s_cat + s_daypart + s_quality + s_mode
             + s_indoor + s_quiet + s_nowalk + s_dist

\* ---------------------------------------------------------- optimizer.py
_dist2(a, b) ==
    LET dx == a.lat - b.lat
        dy == a.lng - b.lng
    IN  dx * dx + dy * dy

\* NearestIndex taking the last of the equally near stops
NearestIndex_last_on_ties(last, remaining) ==
    CHOOSE i \in 1..Len(remaining) :
        /\ \A j \in 1..Len(remaining) : _dist2(last, remaining[i]) <= _dist2(last, remaining[j])
        /\ \A j \in (i + 1)..Len(remaining) : _dist2(last, remaining[j]) > _dist2(last, remaining[i])

\* min(range(len(remaining)), key=...): the first index with the least key
NearestIndex(last, remaining) ==
    CHOOSE i \in 1..Len(remaining) :
        /\ \A j \in 1..Len(remaining) : _dist2(last, remaining[i]) <= _dist2(last, remaining[j])
        /\ \A j \in 1..(i - 1) : _dist2(last, remaining[j]) > _dist2(last, remaining[i])

RemoveAt(s, i) == SubSeq(s, 1, i - 1) \o SubSeq(s, i + 1, Len(s))

RECURSIVE NearestLoop(_, _)
NearestLoop(ordered, remaining) ==
    IF remaining = <<>> THEN ordered
    ELSE LET nxt_i == NearestIndex(ordered[Len(ordered)], remaining)
         IN  NearestLoop(Append(ordered, remaining[nxt_i]), RemoveAt(remaining, nxt_i))

\* order_stops_nearest_neighbor leaving lists of three stops as they are
order_stops_unordered_up_to_three(stops) ==
    IF Len(stops) <= 3 THEN stops
    ELSE NearestLoop(<<Head(stops)>>, Tail(stops))

order_stops_nearest_neighbor(stops) ==
    IF Len(stops) <= 2 THEN stops
    ELSE NearestLoop(<<Head(stops)>>, Tail(stops))

\* ----------------------------------------------- the services (fixtures)
\* What the Places service knows.  Nearby search returns the raw records;
\* opening hours and business status only come with a Details call.
Place(place_id, lat, lng, category, rating, reviews, is_indoor, dist) ==
    [place_id |-> place_id, lat |-> lat, lng |-> lng, category |-> category,
     rating |-> rating, user_ratings_total |-> reviews, is_indoor |-> is_indoor,
     tourist_density |-> 0, local_favorite |-> FALSE, noise_level |-> 1,
     periods |-> <<>>, business_status |-> "None", dist |-> dist]

PlaceIds == {"p1", "p2", "p3", "p4", "p5"}

PLACES ==
    [p1 |-> Place("p1", 0, 0, "specialty_coffee", 4, 0, "True", 600),
     p2 |-> Place("p2", 0, 3, "bakery", 5, 2500, "False", 1200),
     p3 |-> Place("p3", 0, 1, "cafe", 3, 0, "None", 300),
     p4 |-> Place("p4", 0, 2, "street_food", 5, 0, "True", 60),
     p5 |-> Place("p5", 1, 1, "specialty_coffee", 4, 0, "True", 600)]

\* Details: p1 and p5 open Friday 08:00-23:00, p2 without hours, p3 open
\* Friday 09:00-11:00, p4 open Sunday 03:00-04:00 only
DETAILS ==
    [p1 |-> [periods |-> <<Period(5, 800, 5, 2300)>>, business_status |-> "OPERATIONAL"],
     p2 |-> [periods |-> <<>>, business_status |-> "None"],
     p3 |-> [periods |-> <<Period(5, 900, 5, 1100)>>, business_status |-> "OPERATIONAL"],
     p4 |-> [periods |-> <<Period(0, 300, 0, 400)>>, business_status |-> "OPERATIONAL"],
     p5 |-> [periods |-> <<Period(5, 800, 5, 2300)>>, business_status |-> "OPERATIONAL"]]

\* the places whose Details call may fail
FlakyDetails == {"p4"}

NEARBY ==
    [specialty_coffee |-> <<"p1", "p3">>, roastery |-> <<"p1", "p5">>,
     bakery |-> <<"p2">>, patisserie |-> <<"p4">>, cafe |-> <<"p3", "p2">>,
     street_food |-> <<"p4">>,
     local_restaurant |-> <<"p2">>, traditional_food |-> <<"p2", "p1">>,
     dessert |-> <<"p3">>,
     shopping_area |-> <<"p1">>, market |-> <<"p2">>,
     photo_spot |-> <<"p2">>, viewpoint |-> <<"p2">>,
     park |-> <<"p1">>,
     bar |-> <<"p1", "p4">>, hotel_bar |-> <<"p3">>,
     late_food |-> <<"p2">>, fast_food |-> <<"p1">>]

nearby_search(keyword) ==
    IF keyword \in DOMAIN NEARBY
    THEN [i \in 1..Len(NEARBY[keyword]) |-> PLACES[NEARBY[keyword][i]]]
    ELSE <<>>

\* what the Weather service may answer
WeatherMild == Weather(15, TRUE, 15, "clear", FALSE, FALSE, "high", "api")
WeatherColdRain == Weather(3, TRUE, 1, "rain", TRUE, FALSE, "high", "api")
WeatherNoTemp == Weather(NoTemp, FALSE, NoTemp, "", FALSE, FALSE, "high", "api")

WeatherAnswers == {WeatherMild, WeatherColdRain, WeatherNoTemp}

\* datetime.now().month at the time of a fallback
Months == {1, 7}

\* --------------------------------------------------------- providers.py
Returned(value) == [raised |-> FALSE, error |-> "", value |-> value]
Raised(error) == [raised |-> TRUE, error |-> error, value |-> <<>>]

\* providers.py: the function calls itself instead of cache.incr, the
\* recursion never ends and Python raises RecursionError, which
\* `except ValueError` does not catch
safe_cache_incr(key, delta) == Raised("RecursionError")

_weather_fallback(month) ==
    LET temp == IF month \in {12, 1, 2} THEN 8
                ELSE IF month \in {3, 4, 5} THEN 15
                ELSE IF month \in {6, 7, 8} THEN 25
                ELSE 12
        condition == IF month \in {12, 1, 2} THEN "cloudy"
                     ELSE IF month \in {3, 4, 5} THEN "partly cloudy"
                     ELSE IF month \in {6, 7, 8} THEN "clear"
                     ELSE "cloudy"
    IN  Weather(temp, TRUE, temp, condition, FALSE, FALSE, "low", "fallback")

\* cached: <<>> or <<snapshot>>.  answer: what weather_provider.get_weather
\* does (raises or returns a snapshot).  The result carries the cache.
get_weather(cached, answer, month) ==
    LET OnException(cache1) ==
            \* except Exception: count the failure, return the fallback
            IF safe_cache_incr("metrics:weather_api_failures", 1).raised
            THEN Raised(safe_cache_incr("metrics:weather_api_failures", 1).error)
                    @@ [cache |-> cache1]
            ELSE Returned(_weather_fallback(month)) @@ [cache |-> cache1]
    IN  IF cached # <<>> THEN Returned(cached[1]) @@ [cache |-> cached]
        ELSE IF answer.raised THEN OnException(cached)
        ELSE LET weather == IF answer.value.temp = NoTemp
                            THEN _weather_fallback(month)
                            ELSE [answer.value EXCEPT !.confidence = "high"]
                 cache1 == <<weather>>
             IN  IF safe_cache_incr("metrics:weather_api_calls", 1).raised
                 THEN OnException(cache1)
                 ELSE Returned(weather) @@ [cache |-> cache1]

\* "-".join(sorted(categories[:3])) with city and radius fixed
CacheKey(categories) == Range(Prefix(categories, 3))

CacheGet(cache, key) == IF key \in DOMAIN cache THEN cache[key] ELSE <<>>

CacheSet(cache, key, value) ==
    [k \in DOMAIN cache \cup {key} |-> IF k = key THEN value ELSE cache[k]]

\* deduplicate by place_id, first occurrence kept; records without a
\* place_id are dropped
RECURSIVE UniqueById(_)
UniqueById(results) ==
    IF results = <<>> THEN <<>>
    ELSE LET init == UniqueById(SubSeq(results, 1, Len(results) - 1))
             r == results[Len(results)]
         IN  IF r.place_id = "" \/ \E i \in 1..Len(init) : init[i].place_id = r.place_id
             THEN init ELSE Append(init, r)

\* details_fail: the place ids whose Details call raises
_enrich_opening_hours(places, details_fail) ==
    [i \in 1..Len(places) |->
        LET place == places[i]
        IN  IF place.place_id = "" \/ place.place_id \in details_fail THEN place
            ELSE LET details == DETAILS[place.place_id]
                 IN  [place EXCEPT
                        !.periods = IF details.periods # <<>> THEN details.periods ELSE @,
                        !.business_status = IF details.business_status # "None"
                                            THEN details.business_status ELSE @]]

RECURSIVE Flatten(_)
Flatten(ss) == IF ss = <<>> THEN <<>> ELSE Head(ss) \o Flatten(Tail(ss))

\* nearby_fail: the positions in `categories` whose nearby search raises.
\* The result carries the candidates cache.
fetch_candidates(cache, categories, nearby_fail, details_fail, enrich_opening_hours, enrich_limit) ==
    LET cache_key == CacheKey(categories)
        cached == CacheGet(cache, cache_key)
        OuterException(cache1) ==
            IF safe_cache_incr("metrics:places_api_failures", 1).raised
            THEN Raised(safe_cache_incr("metrics:places_api_failures", 1).error)
                    @@ [cache |-> cache1]
            ELSE Returned(<<>>) @@ [cache |-> cache1]
        \* the category loop: the first failing search runs the inner handler
        first_fail == IF nearby_fail = {} THEN 0
                      ELSE CHOOSE i \in nearby_fail : \A j \in nearby_fail : i <= j
        inner_raises == first_fail # 0
                        /\ safe_cache_incr("metrics:places_api_failures", 1).raised
        results == Flatten([i \in 1..Len(categories) |->
                        IF i \in nearby_fail THEN <<>> ELSE nearby_search(categories[i])])
        unique == UniqueById(results)
        unique1 == IF enrich_opening_hours
                   THEN _enrich_opening_hours(Prefix(unique, enrich_limit), details_fail)
                   ELSE unique
        cache1 == CacheSet(cache, cache_key, unique1)
    IN  IF cached # <<>> THEN Returned(cached) @@ [cache |-> cache]
        ELSE IF inner_raises THEN OuterException(cache)
        ELSE IF safe_cache_incr("metrics:places_api_calls", Len(categories)).raised
             THEN OuterException(cache1)
        ELSE IF enrich_opening_hours
                /\ safe_cache_incr("metrics:places_details_calls",
                                   Min2(Len(unique1), enrich_limit)).raised
             THEN OuterException(cache1)
        ELSE Returned(unique1) @@ [cache |-> cache1]

\* Haversine distance of the place from the user's location: the place
\* table holds it (999999 when the record has no geometry)
distance_m(place) == place.dist

\* ------------------------------------------------------------- engine.py
OutdoorSlotIds == {"photo_stop", "walk", "viewpoint_walk", "scenic_walk"}

\* categories.remove("hotel_bar") if present, then insert(0, "hotel_bar")
HotelBarFirst(categories) ==
    LET i == IF Contains(categories, "hotel_bar")
             THEN CHOOSE k \in 1..Len(categories) :
                    categories[k] = "hotel_bar"
                    /\ \A j \in 1..(k - 1) : categories[j] # "hotel_bar"
             ELSE 0
    IN  <<"hotel_bar">> \o (IF i = 0 THEN categories ELSE RemoveAt(categories, i))

BuildSlot(spec, wp, cursor, climate_constraints) ==
    LET d0 == spec.duration_min
        d1 == IF wp.very_cold /\ spec.slot_id \in {"shopping_cluster", "explore_area"}
              THEN Max2(60, (d0 * 75) \div 100) ELSE d0
        duration == IF wp.pleasant /\ spec.slot_id \in {"photo_stop", "walk"}
                    THEN (d1 * 12) \div 10 ELSE d1
        slot_constraints == DedupKeepFirst(spec.constraints \o climate_constraints)
        categories == IF wp.very_cold /\ spec.slot_id = "drinks"
                      THEN HotelBarFirst(spec.categories) ELSE spec.categories
    IN  [slot_id |-> spec.slot_id, start |-> cursor, end |-> cursor + duration,
         duration_min |-> duration, categories |-> categories,
         constraints |-> slot_constraints, role |-> spec.role]

\* BuildLoop where a slot skipped for weather still takes its time
RECURSIVE BuildLoop_skip_advances(_, _, _, _, _)
BuildLoop_skip_advances(specs, wp, cursor, climate_constraints, slots) ==
    IF specs = <<>> THEN slots
    ELSE LET spec == Head(specs)
             hostile == wp.very_cold \/ wp.rain \/ wp.snow
             slot == BuildSlot(spec, wp, cursor, climate_constraints)
         IN  IF spec.slot_id \in OutdoorSlotIds /\ hostile
             THEN BuildLoop_skip_advances(Tail(specs), wp, slot.end,
                                          climate_constraints, slots)
             ELSE BuildLoop_skip_advances(Tail(specs), wp, slot.end,
                                          climate_constraints, Append(slots, slot))

\* the loop of _build_slots over the slot specs
RECURSIVE BuildLoop(_, _, _, _, _)
BuildLoop(specs, wp, cursor, climate_constraints, slots) ==
    IF specs = <<>> THEN slots
    ELSE LET spec == Head(specs)
             hostile == wp.very_cold \/ wp.rain \/ wp.snow
         IN  IF spec.slot_id \in OutdoorSlotIds /\ hostile
             THEN BuildLoop(Tail(specs), wp, cursor, climate_constraints, slots)
             ELSE LET slot == BuildSlot(spec, wp, cursor, climate_constraints)
                  IN  BuildLoop(Tail(specs), wp, slot.end, climate_constraints,
                                Append(slots, slot))

_build_slots(dt_local, slot_specs, weather) ==
    LET wp == build_weather_profile(weather)
        climate_constraints == IF wp.very_cold \/ wp.rain \/ wp.snow
                               THEN <<"indoor_only", "prefer_short_legs">> ELSE <<>>
    IN  BuildLoop(slot_specs, wp, dt_local + 5, climate_constraints, <<>>)

Option(place, score, open_status) ==
    [place |-> place, score |-> score, distance_m |-> distance_m(place),
     open |-> open_status.is_open, open_confidence |-> open_status.confidence,
     open_reason |-> open_status.reason]

\* RankCandidate without the hard filter on confirmed-closed places
RankCandidate_keeps_closed(place, slot, daypart, discovery_mode, slot_constraints) ==
    LET open_status == compute_open_status(place, slot.start, slot.duration_min)
    IN  << Option(place,
                  score_place_for_slot(place, slot.categories, daypart, discovery_mode,
                                       slot_constraints, open_status, distance_m(place)),
                  open_status) >>

\* the option of one candidate, or nothing when it is confirmed closed
RankCandidate(place, slot, daypart, discovery_mode, slot_constraints) ==
    LET open_status == compute_open_status(place, slot.start, slot.duration_min)
    IN  IF open_status.is_open = "False" THEN <<>>
        ELSE << Option(place,
                       score_place_for_slot(place, slot.categories, daypart, discovery_mode,
                                            slot_constraints, open_status, distance_m(place)),
                       open_status) >>

\* a sort by score that puts the later of two equal scores first
RECURSIVE SortByScoreDesc_later_tie_first(_)
SortByScoreDesc_later_tie_first(options) ==
    IF options = <<>> THEN <<>>
    ELSE LET init == SortByScoreDesc_later_tie_first(SubSeq(options, 1, Len(options) - 1))
             x == options[Len(options)]
             before == SelectSeq(init, LAMBDA o : o.score > x.score)
             after == SelectSeq(init, LAMBDA o : o.score <= x.score)
         IN  before \o <<x>> \o after

\* options.sort(key=score, reverse=True): stable, equal scores keep their order
RECURSIVE SortByScoreDesc(_)
SortByScoreDesc(options) ==
    IF options = <<>> THEN <<>>
    ELSE LET init == SortByScoreDesc(SubSeq(options, 1, Len(options) - 1))
             x == options[Len(options)]
             before == SelectSeq(init, LAMBDA o : o.score >= x.score)
             after == SelectSeq(init, LAMBDA o : o.score < x.score)
         IN  before \o <<x>> \o after

TopN == 10

\* one turn of the loop of _rank_slots, candidates already fetched
RankSlot(slot, candidates, daypart, discovery_mode, constraints) ==
    LET slot_constraints == DedupKeepFirst(constraints \o slot.constraints)
        options == Flatten([i \in 1..Len(candidates) |->
                      RankCandidate(candidates[i], slot, daypart, discovery_mode,
                                    slot_constraints)])
    IN  slot @@ [options |-> Prefix(SortByScoreDesc(options), TopN)]

\* ---------------------------------------------------------------- llm.py
_simple_why_now(slot, context) ==
    LET weather == context.weather
        cond == weather.condition
        feels == IF weather.has_feels_like THEN weather.feels_like ELSE weather.temp
    IN  IF feels # NoTemp /\ feels <= 5 THEN "Mejor indoor por frio"
        ELSE IF CondContains(cond, "rain") \/ CondContains(cond, "drizzle")
             THEN "Ideal para cubrirte"
        ELSE IF context.daypart = "late" THEN "Abierto a esta hora"
        ELSE "Buen timing"

Filled(slot, picks, why) == slot @@ [selected_place_ids |-> picks, why_now |-> why]

FallbackSlot(slot, context) ==
    IF slot.options = <<>> THEN Filled(slot, <<>>, "")
    ELSE Filled(slot, <<slot.options[1].place.place_id>>, _simple_why_now(slot, context))

_deterministic_fallback(context, ranked_slots) ==
    [i \in 1..Len(ranked_slots) |-> FallbackSlot(ranked_slots[i], context)]

\* LLMFillSlot without the check of the pick against the slot's options
LLMFillSlot_trusts_pick(slot, context, picks_by_slot) ==
    LET options == slot.options
        chosen == IF options # <<>> THEN <<options[1].place.place_id>> ELSE <<>>
    IN  IF slot.slot_id \notin DOMAIN picks_by_slot
        THEN Filled(slot, chosen, _simple_why_now(slot, context))
        ELSE Filled(slot, <<picks_by_slot[slot.slot_id].place_id>>,
                    picks_by_slot[slot.slot_id].why)

\* picks_by_slot: slot_id -> [place_id, why] for the slots the answer names
\* (place_id "None": the pick has no selected_place_id)
LLMFillSlot(slot, context, picks_by_slot) ==
    LET options == slot.options
        chosen == IF options # <<>> THEN <<options[1].place.place_id>> ELSE <<>>
        valid_ids == {options[i].place.place_id : i \in 1..Len(options)}
    IN  IF slot.slot_id \notin DOMAIN picks_by_slot
        THEN Filled(slot, chosen, _simple_why_now(slot, context))
        ELSE IF picks_by_slot[slot.slot_id].place_id \notin valid_ids
        THEN Filled(slot, chosen, _simple_why_now(slot, context))
        ELSE Filled(slot, <<picks_by_slot[slot.slot_id].place_id>>,
                    picks_by_slot[slot.slot_id].why)

\* answer.kind: "client_raises" (the API call fails), "unparsable" (json.loads
\* or the shape of the answer raises), "picks"
_llm_fill(context, ranked_slots, answer) ==
    IF answer.kind # "picks" THEN Raised(answer.kind)
    ELSE Returned([i \in 1..Len(ranked_slots) |->
                      LLMFillSlot(ranked_slots[i], context, answer.picks)])

\* fill that leaves every slot unselected when the language model fails
fill_failure_selects_nothing(has_client, context, ranked_slots, answer) ==
    IF ~has_client THEN _deterministic_fallback(context, ranked_slots)
    ELSE IF _llm_fill(context, ranked_slots, answer).raised
         THEN [i \in 1..Len(ranked_slots) |-> Filled(ranked_slots[i], <<>>, "")]
         ELSE _llm_fill(context, ranked_slots, answer).value

fill(has_client, context, ranked_slots, answer) ==
    IF ~has_client THEN _deterministic_fallback(context, ranked_slots)
    ELSE IF _llm_fill(context, ranked_slots, answer).raised
         THEN _deterministic_fallback(context, ranked_slots)
         ELSE _llm_fill(context, ranked_slots, answer).value

\* ------------------------------------------------------- engine.py (cont.)
Stop(i, slot, chosen_opt) ==
    [order_index |-> i, slot_id |-> slot.slot_id, slot_role |-> slot.role,
     why_now |-> slot.why_now, place_id |-> chosen_opt.place.place_id,
     lat |-> chosen_opt.place.lat, lng |-> chosen_opt.place.lng,
     category |-> chosen_opt.place.category, start |-> slot.start,
     duration_min |-> slot.duration_min, open_status |-> chosen_opt.open,
     open_confidence |-> chosen_opt.open_confidence,
     open_reason |-> chosen_opt.open_reason,
     business_status |-> chosen_opt.place.business_status,
     rating |-> chosen_opt.place.rating]

\* enumerate() counts from 0; i is the position of the slot in slots_filled
MaterializeSlot(i, slot) ==
    LET picks == slot.selected_place_ids
        matches == SelectSeq(slot.options, LAMBDA o : o.place.place_id = picks[1])
    IN  IF picks = <<>> THEN <<>>
        ELSE IF matches = <<>> THEN <<>>
        ELSE << Stop(i - 1, slot, matches[1]) >>

\* _materialize_stops that gives up at the first slot without a stop
_materialize_stops_until_gap(slots_filled) ==
    LET gaps == {i \in 1..Len(slots_filled) : MaterializeSlot(i, slots_filled[i]) = <<>>}
        last == IF gaps = {} THEN Len(slots_filled)
                ELSE (CHOOSE i \in gaps : \A j \in gaps : i <= j) - 1
    IN  Flatten([i \in 1..last |-> MaterializeSlot(i, slots_filled[i])])

_materialize_stops(slots_filled) ==
    Flatten([i \in 1..Len(slots_filled) |-> MaterializeSlot(i, slots_filled[i])])

\* ------------------------------------------------------------- tasks.py
\* tasks.py: cache.incr, and cache.set when the key does not exist yet
task_safe_cache_incr(counters, key, delta) ==
    IF key \in DOMAIN counters
    THEN [counters EXCEPT ![key] = @ + delta]
    ELSE [k \in DOMAIN counters \cup {key} |-> IF k = key THEN 0 + delta ELSE counters[k]]

_derive_open_confidence(open_status, open_conf) ==
    IF open_status = "None" THEN ""
    ELSE IF open_conf \in {"high", "medium", "low"} THEN open_conf
    ELSE "low"

\* Stop.objects.create(...) for the idx-th stop with coordinates
StopRow(idx, st) ==
    [order_index |-> idx, place_id |-> st.place_id, lat |-> st.lat, lng |-> st.lng,
     start_time_utc |-> st.start,
     duration_min |-> IF st.duration_min = 0 THEN 45 ELSE st.duration_min,
     open_status_at_planned_time |-> st.open_status,
     open_confidence |-> _derive_open_confidence(st.open_status, st.open_confidence),
     open_status_reason |-> st.open_reason,
     slot_id |-> st.slot_id, slot_role |-> st.slot_role,
     closed_warning |-> (st.open_status = "False"),
     hours_unknown |-> (st.open_status = "None")]

CreateStops(stops) == [i \in 1..Len(stops) |-> StopRow(i - 1, stops[i])]

\* the Directions service: 750 m on foot or by bike and 1000 m by car for
\* each unit between two points, and no route to or from latitude 1
DirectionModes == {"walk", "bike", "drive"}

get_directions(origin, destination, mode) ==
    LET units == (IF origin[1] >= destination[1] THEN origin[1] - destination[1]
                  ELSE destination[1] - origin[1])
                 + (IF origin[2] >= destination[2] THEN origin[2] - destination[2]
                    ELSE destination[2] - origin[2])
    IN  IF origin[1] = 1 \/ destination[1] = 1 THEN [distance_m |-> 0]
        ELSE [distance_m |-> (IF mode = "drive" THEN 1000 ELSE 750) * units]

\* recommended_mode without the truth test of walk_dist
recommended_mode_walks_zero(constraints, walk_dist) ==
    IF Contains(constraints, "no_walk") THEN "drive"
    ELSE IF walk_dist <= 1500 THEN "walk"
    ELSE "drive"

\* if "no_walk" in constraints / elif walk_dist and walk_dist <= 1500 / else
recommended_mode(constraints, walk_dist) ==
    IF Contains(constraints, "no_walk") THEN "drive"
    ELSE IF walk_dist # 0 /\ walk_dist <= 1500 THEN "walk"
    ELSE "drive"

\* Leg.objects.create(...) between two created stops; directions_fail: the
\* modes whose Directions call raises (the handler puts distance 0)
LegRow(a, b, constraints, directions_fail) ==
    LET modes_json == [mode \in DirectionModes |->
                          IF mode \in directions_fail THEN [distance_m |-> 0]
                          ELSE get_directions(<<a.lat, a.lng>>, <<b.lat, b.lng>>, mode)]
        walk_dist == modes_json["walk"].distance_m
        mode == recommended_mode(constraints, walk_dist)
    IN  [from_stop |-> a.order_index, to_stop |-> b.order_index, modes_json |-> modes_json,
         recommended_mode |-> mode, recommended_distance_m |-> modes_json[mode].distance_m]

CreateLegs(created_stops, constraints, directions_fail) ==
    [i \in 1..(Len(created_stops) - 1) |->
        LegRow(created_stops[i], created_stops[i + 1], constraints, directions_fail)]

\* the rows of a plan in the database
Rows(plan_status, error_code, stops, legs) ==
    [status |-> plan_status, last_error_code |-> error_code, stops |-> stops, legs |-> legs]

\* a block that keeps what it wrote when it raises
transaction_autocommit(before, written, raised) == written

\* with transaction.atomic(): what the block wrote is kept when it ends and
\* undone when it raises
transaction_atomic(before, written, raised) == IF raised THEN before ELSE written

\* where the block of the transaction may raise: nowhere, once the old
\* rows are deleted, or once the first stop is created
RaisePoints == {"none", "after_delete", "after_first_stop"}

\* the class of the exception the database raises inside the block
DatabaseError == "OperationalError"

\* the block of generate_plan_task under transaction.atomic(), run up to
\* the point where it raises
PersistBlock(raise_at, stops, legs) ==
    IF raise_at = "after_delete" THEN Rows("building", "None", <<>>, <<>>)
    ELSE IF raise_at = "after_first_stop" THEN Rows("building", "None", Prefix(stops, 1), <<>>)
    ELSE Rows("ready", "None", stops, legs)

\* what generate_plan_task hands to engine.generate: energy and
\* duration_hours of inputs_json are not passed on
TaskGenerateInputs(inputs) ==
    [intent |-> IF inputs.intent = "" THEN "chill" ELSE inputs.intent,
     when_selection |-> IF inputs.when_selection = "" THEN "now" ELSE inputs.when_selection,
     discovery_mode |-> IF inputs.discovery_mode = "" THEN "local" ELSE inputs.discovery_mode,
     constraints |-> inputs.constraints]

\* generate(): inputs.get("energy", 2), inputs.get("duration_hours", 4.0)
EnergyStr(gen_inputs) ==
    LET energy_level == IF "energy" \in DOMAIN gen_inputs THEN gen_inputs.energy ELSE 2
    IN  IF energy_level <= 1 THEN "low" ELSE IF energy_level >= 2 THEN "high" ELSE "medium"

DurationHours(gen_inputs) ==
    IF "duration_hours" \in DOMAIN gen_inputs THEN gen_inputs.duration_hours ELSE 4

EnrichLimit == 25

\* --------------------------------------------------------------- state
VARIABLES
    inputs_json,      \* plan.inputs_json
    dt_local,         \* plan.start_time_utc in the plan's timezone
    status,           \* plan.status
    last_error_code,  \* plan.last_error_code
    dbStops,          \* the Stop rows of the plan, by order_index
    dbLegs,           \* the Leg rows of the plan, in the order of creation
    weatherCache,     \* cache entry weather:v3:<lat>:<lng>: <<>> or <<snapshot>>
    candCache,        \* cache entries candidates:v3:<city>:<cats>:<radius>
    metrics,          \* cache entries metrics:<name>
    pc,               \* where the task run stands
    runs,             \* task runs started so far
    weather,          \* weather_snapshot of the run: <<>> or <<snapshot>>
    slots,            \* slots built by _build_slots
    ranked,           \* ranked slots so far (loop of _rank_slots)
    llm_answer,       \* what the language model answered in fill
    filled,           \* filled_slots
    chosen_stops,     \* chosen_stops
    call,             \* a call of a pure function made on its own: inputs, result
    dispatched,       \* the tasks the API views sent to the queue, not run yet
    workers,          \* concurrent workers: where each stands in its code
    row_lock          \* the worker holding the plan row (select_for_update)

vars == <<inputs_json, dt_local, status, last_error_code, dbStops, dbLegs, weatherCache,
          candCache, metrics, pc, runs, weather, slots, ranked, llm_answer,
          filled, chosen_stops, call, dispatched, workers, row_lock>>

planVars == <<inputs_json, dt_local>>
concVars == <<dispatched, workers, row_lock>>
cacheVars == <<weatherCache, candCache>>
localVars == <<weather, slots, ranked, llm_answer, filled, chosen_stops>>

Intents == {"chill", "food", "coffee", "shopping", "outdoor"}
UserConstraints == {<<>>, <<"indoor_only">>}
\* Friday 10:00
DtLocals == {5 * 1440 + 600}

NoAnswer == [kind |-> "none", picks |-> <<>>]

\* no pure function is being called on its own
NoCall == [fn |-> "none", done |-> FALSE]

\* PlanViewSet.generate: the plan row is created with status building and
\* generate_plan_task is sent to the queue
PlanCreated ==
    /\ dt_local \in DtLocals
    /\ status = "building"
    /\ last_error_code = "None"
    /\ dbStops = <<>>
    /\ dbLegs = <<>>
    /\ weatherCache = <<>>
    /\ candCache = <<>>
    /\ metrics = <<>>
    /\ pc = "queued"
    /\ runs = 1
    /\ weather = <<>>
    /\ slots = <<>>
    /\ ranked = <<>>
    /\ llm_answer = NoAnswer
    /\ filled = <<>>
    /\ chosen_stops = <<>>
    /\ call = NoCall
    /\ dispatched = {}
    /\ workers = <<>>
    /\ row_lock = "none"

Init ==
    /\ inputs_json \in [intent : Intents, when_selection : {"now"},
                        discovery_mode : {"local"}, constraints : UserConstraints,
                        use_llm : BOOLEAN, energy : {2}, duration_hours : {4}]
    /\ PlanCreated

\* except Exception: plan.status = "failed", last_error_code = class name,
\* metrics:plan_generation_failures += 1, raise
ExceptHandler(error) ==
    /\ status' = "failed"
    /\ last_error_code' = error
    /\ metrics' = task_safe_cache_incr(metrics, "plan_generation_failures", 1)
    /\ pc' = "failed"
    /\ UNCHANGED <<planVars, call, concVars, runs>>

\* the task fails before the transaction
TaskFails(error) ==
    /\ ExceptHandler(error)
    /\ UNCHANGED <<dbStops, dbLegs>>

Context == [hour |-> HourOf(dt_local), daypart |-> get_daypart(dt_local),
            weather |-> weather[1]]

\* engine.providers.get_weather(user_location=...)
GetWeather ==
    /\ pc = "queued"
    /\ \E answer \in {Raised("ConnectionError")} \cup {Returned(w) : w \in WeatherAnswers},
          month \in Months :
          LET r == get_weather(weatherCache, answer, month)
          IN  /\ weatherCache' = r.cache
              /\ IF r.raised
                 THEN /\ TaskFails(r.error)
                      /\ UNCHANGED <<candCache, localVars>>
                 ELSE /\ weather' = <<r.value>>
                      /\ pc' = "generate"
                      /\ UNCHANGED <<planVars, call, concVars, status, last_error_code,
                                     dbStops, dbLegs, candCache,
                                     metrics, runs, slots, ranked, llm_answer, filled,
                                     chosen_stops>>

\* generate(): choose_template and _build_slots
BuildSlots ==
    /\ pc = "generate"
    /\ LET gen_inputs == TaskGenerateInputs(inputs_json)
           template == choose_template(gen_inputs.intent, gen_inputs.when_selection,
                                       HourOf(dt_local), DurationHours(gen_inputs),
                                       EnergyStr(gen_inputs))
       IN  slots' = _build_slots(dt_local, template.slots, weather[1])
    /\ pc' = "rank"
    /\ UNCHANGED <<planVars, call, concVars, status, last_error_code, dbStops, dbLegs,
                   cacheVars, metrics, runs,
                   weather, ranked, llm_answer, filled, chosen_stops>>

\* _rank_slots(): one turn of the loop, for the next slot
RankNext ==
    /\ pc = "rank"
    /\ Len(ranked) < Len(slots)
    /\ LET slot == slots[Len(ranked) + 1]
           gen_inputs == TaskGenerateInputs(inputs_json)
       IN  \E nearby_fail \in SUBSET (1..Len(slot.categories)),
              details_fail \in SUBSET FlakyDetails :
              LET r == fetch_candidates(candCache, slot.categories, nearby_fail,
                                        details_fail, TRUE, EnrichLimit)
              IN  /\ candCache' = r.cache
                  /\ IF r.raised
                     THEN /\ TaskFails(r.error)
                          /\ UNCHANGED <<weatherCache, localVars>>
                     ELSE /\ ranked' = Append(ranked,
                                  RankSlot(slot, r.value, get_daypart(dt_local),
                                           gen_inputs.discovery_mode, gen_inputs.constraints))
                          /\ UNCHANGED <<planVars, call, concVars, status, last_error_code,
                                         dbStops, dbLegs,
                                         weatherCache, metrics, pc, runs, weather, slots,
                                         llm_answer, filled, chosen_stops>>

\* the place ids a pick of the language model may carry for a slot
PickIds(slot) ==
    {"None", "zz"} \cup
    {slot.options[i].place.place_id : i \in 1..Min2(MaxLLMChoice, Len(slot.options))}

LLMPicks(ranked_slots) ==
    LET ids == {ranked_slots[i].slot_id : i \in 1..Len(ranked_slots)}
        SlotOf(id) == CHOOSE sl \in Range(ranked_slots) : sl.slot_id = id
        total == {g \in [ids -> PlaceIds \cup {"None", "zz", "absent"}] :
                    \A id \in ids : g[id] \in PickIds(SlotOf(id)) \cup {"absent"}}
    IN  {[id \in {x \in ids : g[x] # "absent"} |-> [place_id |-> g[id], why |-> "LLM"]]
            : g \in total}

LLMAnswers(ranked_slots) ==
    {[kind |-> "client_raises", picks |-> <<>>], [kind |-> "unparsable", picks |-> <<>>]}
    \cup {[kind |-> "picks", picks |-> f] : f \in LLMPicks(ranked_slots)}

\* self.llm.fill(context, ranked_slots)
Fill ==
    /\ pc = "rank"
    /\ Len(ranked) = Len(slots)
    /\ \E answer \in IF inputs_json.use_llm THEN LLMAnswers(ranked) ELSE {NoAnswer} :
          /\ llm_answer' = answer
          /\ filled' = fill(inputs_json.use_llm, Context, ranked, answer)
    /\ pc' = "materialize"
    /\ UNCHANGED <<planVars, call, concVars, status, last_error_code, dbStops, dbLegs,
                   cacheVars, metrics, runs,
                   weather, slots, ranked, chosen_stops>>

Materialize ==
    /\ pc = "materialize"
    /\ chosen_stops' = _materialize_stops(filled)
    /\ pc' = "order"
    /\ UNCHANGED <<planVars, call, concVars, status, last_error_code, dbStops, dbLegs,
                   cacheVars, metrics, runs,
                   weather, slots, ranked, llm_answer, filled>>

Order ==
    /\ pc = "order"
    /\ chosen_stops' = order_stops_nearest_neighbor(chosen_stops)
    /\ pc' = "persist"
    /\ UNCHANGED <<planVars, call, concVars, status, last_error_code, dbStops, dbLegs,
                   cacheVars, metrics, runs,
                   weather, slots, ranked, llm_answer, filled>>

\* seconds the run took, int(time.time() - start_time)
ElapsedSeconds == {0, 1}

\* the transaction of generate_plan_task: old stops and legs deleted, new
\* stops created with compact order_index, legs created between
\* consecutive stops, plan ready; then the metrics.  When the block raises
\* the transaction is rolled back and the handler of the task runs.
Persist ==
    /\ pc = "persist"
    /\ \E raise_at \in RaisePoints, directions_fail \in {{}, DirectionModes} :
          LET created_stops == CreateStops(chosen_stops)
              legs == CreateLegs(created_stops, inputs_json.constraints, directions_fail)
              db == transaction_atomic(Rows(status, last_error_code, dbStops, dbLegs),
                                       PersistBlock(raise_at, created_stops, legs),
                                       raise_at # "none")
          IN  /\ dbStops' = db.stops
              /\ dbLegs' = db.legs
              /\ IF raise_at # "none"
                 THEN ExceptHandler(DatabaseError)
                 ELSE /\ status' = db.status
                      /\ last_error_code' = db.last_error_code
                      /\ \E duration \in ElapsedSeconds :
                            metrics' = task_safe_cache_incr(
                                           task_safe_cache_incr(metrics,
                                               "plan_generation_count", 1),
                                           "plan_generation_time", duration)
                      /\ pc' = "done"
                      /\ UNCHANGED <<planVars, call, concVars, runs>>
    /\ UNCHANGED <<cacheVars, localVars>>

\* autoretry_for=(Exception,): the task runs again
Retry ==
    /\ pc = "failed"
    /\ runs < MaxRuns
    /\ runs' = runs + 1
    /\ pc' = "queued"
    /\ weather' = <<>>
    /\ slots' = <<>>
    /\ ranked' = <<>>
    /\ llm_answer' = NoAnswer
    /\ filled' = <<>>
    /\ chosen_stops' = <<>>
    /\ UNCHANGED <<planVars, call, concVars, status, last_error_code, dbStops, dbLegs,
                   cacheVars, metrics>>

\* regenerate_plan_task: generate_plan_task runs again for a plan that
\* was generated
Regenerate ==
    /\ pc = "done"
    /\ runs < MaxRuns
    /\ runs' = runs + 1
    /\ pc' = "queued"
    /\ weather' = <<>>
    /\ slots' = <<>>
    /\ ranked' = <<>>
    /\ llm_answer' = NoAnswer
    /\ filled' = <<>>
    /\ chosen_stops' = <<>>
    /\ UNCHANGED <<planVars, call, concVars, status, last_error_code, dbStops, dbLegs,
                   cacheVars, metrics>>

Next ==
    \/ GetWeather
    \/ BuildSlots
    \/ RankNext
    \/ Fill
    \/ Materialize
    \/ Order
    \/ Persist
    \/ Retry

Spec == Init /\ [][Next]_vars

\* ------------------------------------------------- the plan and the API
\* A plan created with any energy and duration, generated, regenerated and
\* worked on through the views of PlanViewSet and their tasks.  undo_swap
\* answers 400 for every stop, since nothing writes previous_stop_data, and
\* is left out; pause and resume leave the status alone.
PlanInputs ==
    [intent : {"coffee"}, when_selection : {"now"}, discovery_mode : {"local"},
     constraints : {<<>>, <<"no_walk">>}, use_llm : {FALSE},
     energy : {0, 2}, duration_hours : {2, 4}]

PlanInit ==
    /\ inputs_json \in PlanInputs
    /\ PlanCreated

taskVars == <<pc, runs, weather, slots, ranked, llm_answer, filled, chosen_stops>>

\* what a view or a stub task leaves alone besides the status
ApiUnchanged ==
    UNCHANGED <<planVars, last_error_code, dbStops, dbLegs, cacheVars, metrics,
                taskVars, call, workers, row_lock>>

\* POST /plans/{id}/start/
start ==
    /\ status = "ready"
    /\ status' = "active"
    /\ UNCHANGED dispatched
    /\ ApiUnchanged

\* POST /plans/{id}/swap-stop/: 404 unless the stop is one of the plan
swap_stop ==
    /\ dbStops # <<>>
    /\ status' = "swapping"
    /\ dispatched' = dispatched \cup {"swap_stop_task"}
    /\ ApiUnchanged

\* POST /plans/{id}/delay/: 404 unless the stop is one of the plan
delay ==
    /\ dbStops # <<>>
    /\ status' = "building"
    /\ dispatched' = dispatched \cup {"delay_replan_task"}
    /\ ApiUnchanged

\* POST /plans/{id}/complete/
complete ==
    /\ status # "completed"
    /\ status' = "completed"
    /\ UNCHANGED dispatched
    /\ ApiUnchanged

\* POST /plans/{id}/archive/: the status changes unless completed or failed
archive ==
    /\ status \notin {"completed", "failed"}
    /\ status' = "completed"
    /\ UNCHANGED dispatched
    /\ ApiUnchanged

\* the stub sets the plan ready, in its handler too
swap_stop_task ==
    /\ "swap_stop_task" \in dispatched
    /\ dispatched' = dispatched \ {"swap_stop_task"}
    /\ status' = "ready"
    /\ ApiUnchanged

delay_replan_task ==
    /\ "delay_replan_task" \in dispatched
    /\ dispatched' = dispatched \ {"delay_replan_task"}
    /\ status' = "ready"
    /\ ApiUnchanged

PlanNext ==
    \/ GetWeather
    \/ BuildSlots
    \/ RankNext
    \/ Fill
    \/ Materialize
    \/ Order
    \/ Persist
    \/ Retry
    \/ Regenerate
    \/ start
    \/ swap_stop
    \/ delay
    \/ archive
    \/ complete
    \/ swap_stop_task
    \/ delay_replan_task

PlanSpec == PlanInit /\ [][PlanNext]_vars

\* ------------------------------------------- the pure functions on their own
\* The functions of time_rules.py, presets.py and optimizer.py, and
\* _build_slots, called with inputs of their own: the initial state draws
\* the inputs of one call, the call's step stores the result.
mainVars == <<inputs_json, dt_local, status, last_error_code, dbStops, dbLegs,
              weatherCache, candCache, metrics, pc, runs, weather, slots, ranked,
              llm_answer, filled, chosen_stops, dispatched, workers, row_lock>>

\* no task is running
NoTask ==
    /\ inputs_json = [intent |-> "chill", when_selection |-> "now",
                      discovery_mode |-> "local", constraints |-> <<>>,
                      use_llm |-> FALSE, energy |-> 2, duration_hours |-> 4]
    /\ dt_local \in DtLocals
    /\ status = "building"
    /\ last_error_code = "None"
    /\ dbStops = <<>>
    /\ dbLegs = <<>>
    /\ weatherCache = <<>>
    /\ candCache = <<>>
    /\ metrics = <<>>
    /\ pc = "idle"
    /\ runs = 1
    /\ weather = <<>>
    /\ slots = <<>>
    /\ ranked = <<>>
    /\ llm_answer = NoAnswer
    /\ filled = <<>>
    /\ chosen_stops = <<>>
    /\ dispatched = {}

\* no concurrent workers
NoWorkers ==
    /\ workers = <<>>
    /\ row_lock = "none"

Weekdays == 0..6

BusinessStatuses == {"OPERATIONAL", "CLOSED_TEMPORARILY", "CLOSED_PERMANENTLY"}

\* opening hours as Google gives them: none, a day period 09:00-17:00, an
\* overnight period 22:00-02:00 closing on the next weekday, or both
PeriodLists ==
    {<<>>}
    \cup {<<Period(d, 900, d, 1700)>> : d \in Weekdays}
    \cup {<<Period(d, 2200, (d + 1) % 7, 200)>> : d \in Weekdays}
    \cup {<<Period(d, 900, d, 1700), Period(d, 2200, (d + 1) % 7, 200)>> : d \in Weekdays}

\* slot starts: 01:00, 10:00, 16:40 and 23:00 of every weekday
StartTimes == {d * 1440 + m : d \in Weekdays, m \in {60, 600, 1000, 1380}}

SlotDurations == {30, 60, 90}

OpenStatusCalls ==
    [fn : {"compute_open_status"},
     place : {[PLACES["p1"] EXCEPT !.periods = ps, !.business_status = bs] :
                 ps \in PeriodLists, bs \in BusinessStatuses},
     start_dt : StartTimes, duration_min : SlotDurations, done : {FALSE}]

\* the intents of the alias map, two the map does not know, and spellings
\* that strip().lower() changes
CallIntents ==
    DOMAIN INTENT_TO_TEMPLATE \cup {"picnic", "surprise", "", "Museum", " walk ", "PARTY", "Picnic"}

WhenSelections == {"now", "tonight", "later", "", "Tonight"}

Hours == 0..23

ChooseTemplateCalls ==
    [fn : {"choose_template"}, intent : CallIntents, when_selection : WhenSelections,
     hour : Hours, duration_hours : {4}, energy : {"medium"}, done : {FALSE}]

DurationHoursValues == 0..8

EnergyLevels == {"low", "medium", "high"}

AdjustCalls ==
    [fn : {"adjust_template_for_duration"}, template_key : TemplateKeys \cup {"no_such_key"},
     duration_hours : DurationHoursValues, energy_level : EnergyLevels, done : {FALSE}]

\* one intent for every template of the catalog (museum reaches museum_day
\* by day and culture_alt_late at night)
BuildIntents ==
    {"chill", "highlights", "shopping", "museum", "food", "coffee", "nightlife",
     "outdoor", "date"}

WeatherWarmRain == Weather(12, TRUE, 12, "light rain", TRUE, FALSE, "high", "api")

\* what get_weather can hand to generate
BuildWeathers ==
    {WeatherMild, WeatherColdRain, WeatherWarmRain} \cup {_weather_fallback(m) : m \in Months}

\* generate with its inputs: intent, duration_hours, energy (0-3), the
\* local start and the weather of the context
BuildSlotsCalls ==
    [fn : {"_build_slots"}, intent : BuildIntents, dt_local : {5 * 1440 + 600, 5 * 1440 + 1320},
     duration_hours : {2, 4, 6}, energy : {1, 2}, weather : BuildWeathers, done : {FALSE}]

\* stop coordinates: four on a line, and one as far from (0,0) as (0,1)
Points == {<<0, 0>>, <<0, 1>>, <<0, 2>>, <<0, 3>>, <<1, 0>>}

\* stop lists as _materialize_stops makes them, the i-th from slot i - 1
StopLists ==
    UNION {{[i \in 1..n |-> [order_index |-> i - 1, lat |-> f[i][1], lng |-> f[i][2]]] :
               f \in [1..n -> Points]} : n \in 0..MaxStops}

OrderCalls == [fn : {"order_stops_nearest_neighbor"}, stops : StopLists, done : {FALSE}]

\* weather snapshots as the weather service and the cache can hold them:
\* temp and feels_like present or None, feels_like key present or not
WeatherSnapshots ==
    {Weather(temp, has_feels_like, feels_like, condition, is_raining, is_snowing,
             "high", "api") :
        temp \in {NoTemp, 1, 10, 15, 22, 23}, has_feels_like \in BOOLEAN,
        feels_like \in {NoTemp, 9, 10, 22},
        condition \in {"clear", "rain", "snow", "windy"},
        is_raining \in BOOLEAN, is_snowing \in BOOLEAN}

WeatherProfileCalls ==
    [fn : {"build_weather_profile"}, weather : WeatherSnapshots, done : {FALSE}]

\* the category lists of fetch_candidates calls and the limits of enrichment
FetchCategories ==
    {<<"specialty_coffee", "roastery">>, <<"cafe", "bakery", "patisserie">>,
     <<"bar", "hotel_bar">>, <<"street_food">>}

EnrichLimits == {1, 2, EnrichLimit}

FetchCalls ==
    [fn : {"fetch_candidates"}, categories : FetchCategories,
     enrich_opening_hours : BOOLEAN, enrich_limit : EnrichLimits,
     details_fail : SUBSET FlakyDetails, done : {FALSE}]

FnCalls ==
    OpenStatusCalls \cup ChooseTemplateCalls \cup AdjustCalls \cup BuildSlotsCalls
    \cup OrderCalls \cup WeatherProfileCalls \cup FetchCalls

FnInit ==
    /\ NoTask
    /\ NoWorkers
    /\ call \in FnCalls

\* the result of a finished call, added to its inputs
Done(result) == [done |-> TRUE, result |-> result] @@ call

CallComputeOpenStatus ==
    /\ call.fn = "compute_open_status"
    /\ ~call.done
    /\ call' = Done(compute_open_status(call.place, call.start_dt, call.duration_min))
    /\ UNCHANGED mainVars

CallChooseTemplate ==
    /\ call.fn = "choose_template"
    /\ ~call.done
    /\ call' = Done(choose_template(call.intent, call.when_selection, call.hour,
                                    call.duration_hours, call.energy))
    /\ UNCHANGED mainVars

CallAdjust ==
    /\ call.fn = "adjust_template_for_duration"
    /\ ~call.done
    /\ call' = Done(adjust_template_for_duration(call.template_key, call.duration_hours,
                                                 call.energy_level))
    /\ UNCHANGED mainVars

\* the adjustment applied once more, to the slot list it returned
CallAdjustAgain ==
    /\ call.fn = "adjust_template_for_duration"
    /\ call.done
    /\ "again" \notin DOMAIN call
    /\ call' = [again |-> AdjustSlots(call.result, call.template_key, call.duration_hours,
                                      call.energy_level)] @@ call
    /\ UNCHANGED mainVars

\* generate(): the template chosen and adjusted, then _build_slots on it
CallBuildSlots ==
    /\ call.fn = "_build_slots"
    /\ ~call.done
    /\ LET gen_inputs == [intent |-> call.intent, energy |-> call.energy,
                          duration_hours |-> call.duration_hours]
           template == choose_template(gen_inputs.intent, "now", HourOf(call.dt_local),
                                       DurationHours(gen_inputs), EnergyStr(gen_inputs))
       IN  call' = [template_key |-> template.key] @@
                   Done(_build_slots(call.dt_local, template.slots, call.weather))
    /\ UNCHANGED mainVars

CallOrder ==
    /\ call.fn = "order_stops_nearest_neighbor"
    /\ ~call.done
    /\ call' = Done(order_stops_nearest_neighbor(call.stops))
    /\ UNCHANGED mainVars

\* the ordered list ordered once more
CallOrderAgain ==
    /\ call.fn = "order_stops_nearest_neighbor"
    /\ call.done
    /\ "again" \notin DOMAIN call
    /\ call' = [again |-> order_stops_nearest_neighbor(call.result)] @@ call
    /\ UNCHANGED mainVars

CallBuildWeatherProfile ==
    /\ call.fn = "build_weather_profile"
    /\ ~call.done
    /\ call' = Done(build_weather_profile(call.weather))
    /\ UNCHANGED mainVars

\* fetch_candidates with nothing cached
CallFetchCandidates ==
    /\ call.fn = "fetch_candidates"
    /\ ~call.done
    /\ call' = Done(fetch_candidates(<<>>, call.categories, {}, call.details_fail,
                                     call.enrich_opening_hours, call.enrich_limit))
    /\ UNCHANGED mainVars

\* the same call once more, with the cache the first call left
CallFetchCandidatesAgain ==
    /\ call.fn = "fetch_candidates"
    /\ call.done
    /\ "again" \notin DOMAIN call
    /\ call' = [again |-> fetch_candidates(call.result.cache, call.categories, {},
                                           call.details_fail, call.enrich_opening_hours,
                                           call.enrich_limit)] @@ call
    /\ UNCHANGED mainVars

FnNext ==
    \/ CallComputeOpenStatus
    \/ CallChooseTemplate
    \/ CallAdjust
    \/ CallAdjustAgain
    \/ CallBuildSlots
    \/ CallOrder
    \/ CallOrderAgain
    \/ CallBuildWeatherProfile
    \/ CallFetchCandidates
    \/ CallFetchCandidatesAgain

FnSpec == FnInit /\ [][FnNext]_vars

\* ------------------------------------------ concurrent metric increments
\* Workers that call safe_cache_incr of tasks.py on one counter at the same
\* time.  cache.incr and cache.set are each atomic in the cache; the
\* function is the two of them, one after the other.
Workers == {"w1", "w2"}

Deltas == {1, 2}

CounterKey == "plan_generation_count"

\* cache.incr(key, delta): ValueError when the key does not exist
cache_incr(counters, key, delta) ==
    IF key \in DOMAIN counters THEN Returned([counters EXCEPT ![key] = @ + delta])
    ELSE Raised("ValueError")

\* what is unchanged by a step of a concurrent worker besides the database
\* and the counters
WorkerUnchanged ==
    UNCHANGED <<planVars, cacheVars, taskVars, call, dispatched>>

IncrInit ==
    /\ NoTask
    /\ call = NoCall
    /\ row_lock = "none"
    /\ workers = [w \in Workers |-> [pc |-> "idle", delta |-> 0, added |-> 0, calls |-> 0]]

\* safe_cache_incr(key, delta): try: return cache.incr(key, delta)
TryIncr(w) ==
    /\ workers[w].pc = "idle"
    /\ workers[w].calls < MaxIncrCalls
    /\ \E delta \in Deltas :
          LET r == cache_incr(metrics, CounterKey, delta)
          IN  IF r.raised
              THEN /\ metrics' = metrics
                   /\ workers' = [workers EXCEPT ![w] =
                          [pc |-> "except", delta |-> delta, added |-> @.added,
                           calls |-> @.calls + 1]]
              ELSE /\ metrics' = r.value
                   /\ workers' = [workers EXCEPT ![w] =
                          [pc |-> "idle", delta |-> 0, added |-> @.added + delta,
                           calls |-> @.calls + 1]]
    /\ WorkerUnchanged
    /\ UNCHANGED <<status, last_error_code, dbStops, dbLegs, row_lock>>

\* except ValueError: cache.set(key, default + delta, None)
SetDefault(w) ==
    /\ workers[w].pc = "except"
    /\ metrics' = CacheSet(metrics, CounterKey, 0 + workers[w].delta)
    /\ workers' = [workers EXCEPT ![w] =
           [pc |-> "idle", delta |-> 0, added |-> @.added + @.delta, calls |-> @.calls]]
    /\ WorkerUnchanged
    /\ UNCHANGED <<status, last_error_code, dbStops, dbLegs, row_lock>>

IncrNext ==
    \/ \E w \in Workers : TryIncr(w)
    \/ \E w \in Workers : SetDefault(w)

IncrSpec == IncrInit /\ [][IncrNext]_vars

\* ------------------------------------------- concurrent runs of the task
\* Two runs of generate_plan_task for the same plan, each with the result
\* of engine.generate in hand, going through the transaction statement by
\* statement.  The writes of a run go to the rows at once; the row lock
\* keeps the other run out until the transaction ends.
ResultStop(i, place_id) ==
    Stop(i, [slot_id |-> "slot", role |-> "anchor", why_now |-> "",
             start |-> 5 * 1440 + 605 + 60 * i, duration_min |-> 45],
         Option(PLACES[place_id], 0, OpenStatus("None", "low", "hours_missing")))

\* chosen_stops of a run
RunResults ==
    {<<>>, <<ResultStop(0, "p1")>>, <<ResultStop(0, "p1"), ResultStop(1, "p3")>>,
     <<ResultStop(0, "p2"), ResultStop(1, "p4"), ResultStop(2, "p3")>>}

TxInit ==
    /\ NoTask
    /\ call = NoCall
    /\ row_lock = "none"
    /\ workers \in [Workers -> {[pc |-> "generated", chosen_stops |-> r, before |-> <<>>] :
                                   r \in RunResults}]

\* a select that does not lock the row
select_without_lock(lock) == TRUE

\* Plan.objects.select_for_update().get(id=plan_id) goes on once no other
\* transaction holds the row
select_for_update(lock) == lock = "none"

\* with transaction.atomic(): the plan row is locked, status building saved
TxBegin(w) ==
    /\ workers[w].pc = "generated"
    /\ select_for_update(row_lock)
    /\ row_lock' = w
    /\ workers' = [workers EXCEPT ![w].pc = "delete",
                                  ![w].before = Rows(status, last_error_code, dbStops, dbLegs)]
    /\ status' = "building"
    /\ last_error_code' = "None"
    /\ WorkerUnchanged
    /\ UNCHANGED <<dbStops, dbLegs, metrics>>

\* plan.stops.all().delete(); plan.legs.all().delete()
TxDelete(w) ==
    /\ workers[w].pc = "delete"
    /\ dbStops' = <<>>
    /\ dbLegs' = <<>>
    /\ workers' = [workers EXCEPT ![w].pc = "stops"]
    /\ WorkerUnchanged
    /\ UNCHANGED <<status, last_error_code, metrics, row_lock>>

\* the rows and the lock once the transaction of run w is rolled back and
\* the handler of the task has stored the failure
TxFailed(w, error) ==
    LET db == transaction_atomic(workers[w].before,
                                 Rows(status, last_error_code, dbStops, dbLegs), TRUE)
    IN  /\ dbStops' = db.stops
        /\ dbLegs' = db.legs
        /\ status' = "failed"
        /\ last_error_code' = error
        /\ metrics' = task_safe_cache_incr(metrics, "plan_generation_failures", 1)
        /\ row_lock' = IF row_lock = w THEN "none" ELSE row_lock
        /\ workers' = [workers EXCEPT ![w].pc = "failed"]

\* Stop.objects.create(...) for every stop; unique_together (plan,
\* order_index) makes the insert raise IntegrityError when a row of the
\* plan has the order_index already
TxCreateStops(w) ==
    /\ workers[w].pc = "stops"
    /\ LET rows == CreateStops(workers[w].chosen_stops)
       IN  IF \E i \in 1..Len(rows), j \in 1..Len(dbStops) :
                  rows[i].order_index = dbStops[j].order_index
           THEN TxFailed(w, "IntegrityError")
           ELSE /\ dbStops' = dbStops \o rows
                /\ workers' = [workers EXCEPT ![w].pc = "legs"]
                /\ UNCHANGED <<status, last_error_code, dbLegs, metrics, row_lock>>
    /\ WorkerUnchanged

\* Leg.objects.create(...) between consecutive created stops
TxCreateLegs(w) ==
    /\ workers[w].pc = "legs"
    /\ dbLegs' = dbLegs \o CreateLegs(CreateStops(workers[w].chosen_stops),
                                       inputs_json.constraints, {})
    /\ workers' = [workers EXCEPT ![w].pc = "commit"]
    /\ WorkerUnchanged
    /\ UNCHANGED <<status, last_error_code, dbStops, metrics, row_lock>>

\* plan.status = "ready", the block ends, the metrics are counted
TxCommit(w) ==
    /\ workers[w].pc = "commit"
    /\ status' = "ready"
    /\ row_lock' = IF row_lock = w THEN "none" ELSE row_lock
    /\ workers' = [workers EXCEPT ![w].pc = "done"]
    /\ \E duration \in ElapsedSeconds :
          metrics' = task_safe_cache_incr(
                         task_safe_cache_incr(metrics, "plan_generation_count", 1),
                         "plan_generation_time", duration)
    /\ WorkerUnchanged
    /\ UNCHANGED <<last_error_code, dbStops, dbLegs>>

\* the block raises: rollback, then the handler of the task
TxRaise(w) ==
    /\ workers[w].pc \in {"delete", "stops", "legs", "commit"}
    /\ TxFailed(w, DatabaseError)
    /\ WorkerUnchanged

TxNext ==
    \/ \E w \in Workers : TxBegin(w)
    \/ \E w \in Workers : TxDelete(w)
    \/ \E w \in Workers : TxCreateStops(w)
    \/ \E w \in Workers : TxCreateLegs(w)
    \/ \E w \in Workers : TxCommit(w)
    \/ \E w \in Workers : TxRaise(w)

TxSpec == TxInit /\ [][TxNext]_vars

\* ---------------------------------------------------------------- claims
AfterFill == pc \in {"materialize", "order", "persist", "done"}
AfterMaterialize == pc \in {"order", "persist", "done"}
AfterOrder == pc \in {"persist", "done"}

\* the candidates fetch_candidates handed to _rank_slots for the i-th slot
CandidatesOf(i) == CacheGet(candCache, CacheKey(slots[i].categories))

\* C1: every stop of a plan result, and every stop row persisted from it,
\* has an open status at its planned start of True or None, never False,
\* and no persisted stop carries closed_warning.
C1_NoClosedStop ==
    /\ \A i \in 1..Len(chosen_stops) : chosen_stops[i].open_status \in {"True", "None"}
    /\ \A i \in 1..Len(dbStops) :
          /\ dbStops[i].open_status_at_planned_time \in {"True", "None"}
          /\ ~dbStops[i].closed_warning

\* a plan was persisted although a confirmed-closed candidate had been
\* fetched for a slot
C1_Witness ==
    /\ pc = "done"
    /\ Len(dbStops) > 0
    /\ \E i \in 1..Len(slots) : \E k \in 1..Len(CandidatesOf(i)) :
          compute_open_status(CandidatesOf(i)[k], slots[i].start,
                              slots[i].duration_min).is_open = "False"

\* C2: in the stop list generate returns, after nearest-neighbour ordering,
\* each stop ends (start + duration_min) no later than the next stop starts.
C2_ConsecutiveStopsInTimeOrder ==
    AfterOrder =>
        \A i \in 1..(Len(chosen_stops) - 1) :
            chosen_stops[i].start + chosen_stops[i].duration_min
                <= chosen_stops[i + 1].start

\* C3: no place_id appears more than once among the stops of a plan result.
C3_PlaceIdsDistinct ==
    AfterMaterialize =>
        \A i, j \in 1..Len(chosen_stops) :
            chosen_stops[i].place_id = chosen_stops[j].place_id => i = j

\* C4: the order_index values of the stops generate returns are 0..N-1 in
\* list order.
C4_OrderIndexDense ==
    AfterOrder =>
        \A i \in 1..Len(chosen_stops) : chosen_stops[i].order_index = i - 1

\* the slot specs generate handed to _build_slots in this run
TemplateSlots ==
    LET gen_inputs == TaskGenerateInputs(inputs_json)
    IN  choose_template(gen_inputs.intent, gen_inputs.when_selection, HourOf(dt_local),
                        DurationHours(gen_inputs), EnergyStr(gen_inputs)).slots

\* C5: in every slot list _build_slots produces, the first emitted slot
\* starts at dt_local + 5 minutes, every slot has start < end and
\* end - start = duration_min, and each slot starts where the previous
\* emitted slot ends, whatever was skipped for weather.
C5_SlotsContiguous ==
    \A i \in 1..Len(slots) :
        /\ slots[i].start < slots[i].end
        /\ slots[i].end - slots[i].start = slots[i].duration_min
        /\ slots[i].start = IF i = 1 THEN dt_local + 5 ELSE slots[i - 1].end

\* slots were built from a template of which a slot was skipped for
\* weather ahead of the first emitted slot
C5_Witness ==
    /\ Len(slots) >= 2
    /\ \E k \in 1..(Len(TemplateSlots) - 1) :
          /\ TemplateSlots[k].slot_id \in OutdoorSlotIds
          /\ \A i \in 1..Len(slots) : slots[i].slot_id # TemplateSlots[k].slot_id
          /\ slots[1].slot_id = TemplateSlots[k + 1].slot_id

\* the constraints _rank_slots applies to the i-th slot: the user's, then
\* the slot's own (with the ones hostile weather injected)
AppliedConstraints(i) ==
    DedupKeepFirst(TaskGenerateInputs(inputs_json).constraints \o filled[i].constraints)

\* the option the selector picked for the i-th filled slot
SelectedOptions(i) ==
    SelectSeq(filled[i].options,
              LAMBDA o : filled[i].selected_place_ids # <<>>
                         /\ o.place.place_id = filled[i].selected_place_ids[1])

\* C6: whenever indoor_only is among the constraints applied to a slot, the
\* place selected for the slot has is_indoor different from False.
C6_IndoorOnlyRespected ==
    AfterFill =>
        \A i \in 1..Len(filled) :
            Contains(AppliedConstraints(i), "indoor_only") =>
                \A k \in 1..Len(SelectedOptions(i)) :
                    SelectedOptions(i)[k].place.is_indoor # "False"

\* C7: get_weather never raises: the step of the task that fetches the
\* weather always hands a snapshot to generate, and when the service call
\* failed (nothing was cached) the snapshot is the seasonal fallback with
\* low confidence.
C7_GetWeatherNeverRaises ==
    [][pc = "queued" =>
          /\ pc' = "generate"
          /\ weather' # <<>>
          /\ (weatherCache' = <<>> =>
                 /\ weather'[1].source = "fallback"
                 /\ weather'[1].confidence = "low")]_vars

\* C8: fetch_candidates never raises: every turn of the ranking loop gets a
\* candidate list, free of duplicate place ids, and ranks the next slot.
C8_FetchCandidatesNeverRaises ==
    [][(pc = "rank" /\ Len(ranked) < Len(slots)) =>
          /\ pc' = "rank"
          /\ Len(ranked') = Len(ranked) + 1
          /\ LET c == CacheGet(candCache', CacheKey(slots[Len(ranked) + 1].categories))
             IN  \A i, j \in 1..Len(c) : c[i].place_id = c[j].place_id => i = j]_vars

\* the language model failed in this run's fill
LLMFailed == inputs_json.use_llm /\ llm_answer.kind \in {"client_raises", "unparsable"}

\* C9: when the LLM client raises or its answer cannot be parsed, fill
\* returns exactly the deterministic fallback for the same context and
\* ranked slots, and the run goes on.
C9_LLMFailureIsFallback ==
    (AfterFill /\ LLMFailed) =>
        /\ Len(filled) = Len(ranked)
        /\ filled = _deterministic_fallback(Context, ranked)

\* the language model failed and the fallback selected a place
C9_Witness ==
    /\ AfterFill
    /\ LLMFailed
    /\ \E i \in 1..Len(filled) :
          /\ Len(filled[i].options) >= 2
          /\ filled[i].selected_place_ids = <<filled[i].options[1].place.place_id>>

\* the ids of the options of a filled slot
OptionIds(slot) == {slot.options[k].place.place_id : k \in 1..Len(slot.options)}

\* the language model answered, and its pick for the slot is missing or
\* names no option of the slot
PickInvalid(slot) ==
    /\ inputs_json.use_llm
    /\ llm_answer.kind = "picks"
    /\ \/ slot.slot_id \notin DOMAIN llm_answer.picks
       \/ llm_answer.picks[slot.slot_id].place_id \notin OptionIds(slot)

\* C10: in either selector mode every filled slot selects nothing or exactly
\* one place of its own options; a missing or invalid LLM pick is replaced
\* by the slot's highest-scored option; nothing is selected only when the
\* slot has no options.
C10_SelectionFromOwnOptions ==
    AfterFill =>
        \A i \in 1..Len(filled) :
            LET slot == filled[i]
                sel == slot.selected_place_ids
            IN  /\ Len(sel) <= 1
                /\ sel # <<>> => sel[1] \in OptionIds(slot)
                /\ sel = <<>> => slot.options = <<>>
                /\ (slot.options # <<>> /\ (PickInvalid(slot) \/ ~inputs_json.use_llm)) =>
                      /\ sel = <<slot.options[1].place.place_id>>
                      /\ \A k \in 1..Len(slot.options) :
                            slot.options[1].score >= slot.options[k].score

\* the language model answered with an invalid pick for one slot that has
\* options and with a valid pick, not the top option, for another
C10_Witness ==
    /\ AfterFill
    /\ inputs_json.use_llm
    /\ llm_answer.kind = "picks"
    /\ \E i, j \in 1..Len(filled) :
          /\ filled[i].options # <<>>
          /\ filled[i].slot_id \in DOMAIN llm_answer.picks
          /\ llm_answer.picks[filled[i].slot_id].place_id = "zz"
          /\ Len(filled[j].options) >= 2
          /\ filled[j].selected_place_ids = <<filled[j].options[2].place.place_id>>

\* a finished call of the function fn
Called(fn) == call.fn = fn /\ call.done

\* C11: compute_open_status answers (False, high, permanently_closed) for a
\* place whose business_status is CLOSED_PERMANENTLY and (False, high,
\* temporarily_closed) for CLOSED_TEMPORARILY, whatever its periods are.
C11_ClosedBusinessIsClosed ==
    Called("compute_open_status") =>
        /\ call.place.business_status = "CLOSED_PERMANENTLY" =>
              call.result = OpenStatus("False", "high", "permanently_closed")
        /\ call.place.business_status = "CLOSED_TEMPORARILY" =>
              call.result = OpenStatus("False", "high", "temporarily_closed")

\* minutes into the week (from Sunday 00:00) of a weekday and an "hhmm" time
WeekMinute(day, hhmm) == day * 1440 + (hhmm \div 100) * 60 + (hhmm % 100)

\* how long a period stays open, its close taken as the first one after
\* its open
PeriodLength(p) == (WeekMinute(p.cday, p.ctime) - WeekMinute(p.oday, p.otime)) % 10080

\* the period, which recurs every week, is open from a through b
PeriodContains(p, a, b) ==
    \E k \in -1..1 :
        LET open == WeekMinute(p.oday, p.otime) + k * 10080
        IN  open <= a /\ b <= open + PeriodLength(p)

\* the period is open at a and closes after it
PeriodContainsStart(p, a) ==
    \E k \in -1..1 :
        LET open == WeekMinute(p.oday, p.otime) + k * 10080
        IN  open <= a /\ a < open + PeriodLength(p)

\* C12: for a place with usable periods compute_open_status answers (True,
\* high, open_for_slot) exactly when some period contains the whole window
\* [start, start + duration], (True, medium, open_but_closing_during_slot)
\* when none does but some period contains the start, and (False, high,
\* closed_for_slot) otherwise; an overnight period is one interval across
\* midnight.
C12_OpenStatusByPeriods ==
    (Called("compute_open_status") /\ call.place.periods # <<>>) =>
        LET periods == call.place.periods
            a == call.start_dt
            b == call.start_dt + call.duration_min
        IN  call.result =
                IF \E i \in 1..Len(periods) : PeriodContains(periods[i], a, b)
                THEN OpenStatus("True", "high", "open_for_slot")
                ELSE IF \E i \in 1..Len(periods) : PeriodContainsStart(periods[i], a)
                THEN OpenStatus("True", "medium", "open_but_closing_during_slot")
                ELSE OpenStatus("False", "high", "closed_for_slot")

\* the slot starts after midnight, on the weekday on which the overnight
\* period p closes, and ends by the time p closes
StartsAfterMidnightIn(p, start_dt, duration_min) ==
    /\ p.cday = (p.oday + 1) % 7
    /\ WeekMinute(0, p.ctime) < WeekMinute(0, p.otime)
    /\ _weekday_google(start_dt) = p.cday
    /\ (start_dt % 1440) + duration_min <= WeekMinute(0, p.ctime)

\* C13: when the slot starts after midnight inside an overnight period that
\* opened on the previous weekday and ends by its close, compute_open_status
\* reports the place open, for every weekday, Saturday to Sunday included.
C13_OpenAfterMidnight ==
    Called("compute_open_status") =>
        ((\E i \in 1..Len(call.place.periods) :
             StartsAfterMidnightIn(call.place.periods[i], call.start_dt, call.duration_min))
         => call.result.is_open = "True")

\* the template key the three fallback rules give for an intent, in order
RuleKey(intent, when, hour) ==
    IF intent = "museum" /\ (hour >= 18 \/ hour <= 6 \/ when = "tonight")
    THEN "culture_alt_late"
    ELSE IF when = "tonight" /\ intent \in {"party", "dance", "club"}
    THEN "nightlife"
    ELSE IF intent \in {"outdoor", "walk", "hike"} /\ (hour >= 21 \/ hour <= 6)
    THEN "chill_evening"
    ELSE IF intent \in DOMAIN INTENT_TO_TEMPLATE THEN INTENT_TO_TEMPLATE[intent]
    ELSE "chill_evening"

\* C14: choose_template resolves the key by the alias map (chill_evening for
\* an unknown intent) and applies the three fallback rules (museum late or
\* tonight, party/dance/club tonight, outdoor/walk/hike late); otherwise the
\* alias result is kept; the key is always a key of the template catalog.
C14_TemplateChoice ==
    Called("choose_template") =>
        /\ call.result.key =
              RuleKey(StripLower(IF call.intent = "" THEN "chill" ELSE call.intent),
                      StripLower(IF call.when_selection = "" THEN "now"
                                 ELSE call.when_selection),
                      call.hour)
        /\ call.result.key \in TemplateKeys

\* choose_template was called for a hike at 22:00 and fell back
C14_Witness ==
    /\ Called("choose_template")
    /\ call.intent = "hike"
    /\ call.hour = 22
    /\ call.result.key = "chill_evening"

\* C15: template adjustment is idempotent: applied with the same duration
\* and energy to its own output it gives the same slot list.
C15_AdjustIdempotent ==
    (Called("adjust_template_for_duration") /\ "again" \in DOMAIN call) =>
        call.again = call.result

\* floor(duration_hours * 60 / (average base duration * multiplier)) for a
\* template of the catalog
IdealCount(template_key, duration_hours, energy_level) ==
    LET base == INTENT_TEMPLATES[template_key]
        total == SumSeq([i \in 1..Len(base) |-> base[i].duration_min])
    IN  (duration_hours * 60 * Len(base) * 10) \div (total * energy_multipliers(energy_level))

\* C16: for coffee_hop with 2 hours and low energy adjust returns fewer than
\* the 3 base slots, kept by role priority, every duration scaled by 0.8;
\* in general the kept count is floor(duration_hours * 60 / (average base
\* duration * multiplier)) when that is below the template length.
C16_CoffeeHopTwoHoursLow ==
    (Called("adjust_template_for_duration") /\ call.template_key \in TemplateKeys) =>
        LET base == INTENT_TEMPLATES[call.template_key]
            ideal == IdealCount(call.template_key, call.duration_hours, call.energy_level)
            kept == SortByRole(base)
        IN  /\ ideal < Len(base) => Len(call.result) = ideal
            /\ (call.template_key = "coffee_hop" /\ call.duration_hours = 2
                /\ call.energy_level = "low") =>
                  /\ Len(call.result) < Len(base)
                  /\ \A i \in 1..Len(call.result) :
                        /\ call.result[i].slot_id = kept[i].slot_id
                        /\ call.result[i].duration_min = (kept[i].duration_min * 8) \div 10

\* position of a slot id in the template of the catalog, 0 when the
\* template has no such slot
TemplateIndex(template_key, slot_id) ==
    LET base == INTENT_TEMPLATES[template_key]
    IN  IF \E k \in 1..Len(base) : base[k].slot_id = slot_id
        THEN CHOOSE k \in 1..Len(base) : base[k].slot_id = slot_id
        ELSE 0

\* C17: the slots generate builds appear in the same relative order as
\* their SlotSpecs in the template catalog, for every intent, duration and
\* energy, also when the template is shrunk.
C17_SlotsInTemplateOrder ==
    Called("_build_slots") =>
        \A i, j \in 1..Len(call.result) :
            (/\ i < j
             /\ TemplateIndex(call.template_key, call.result[i].slot_id) > 0
             /\ TemplateIndex(call.template_key, call.result[j].slot_id) > 0) =>
                TemplateIndex(call.template_key, call.result[i].slot_id)
                    < TemplateIndex(call.template_key, call.result[j].slot_id)

\* C18: in hostile weather (very cold, rain or snow) no slot _build_slots
\* emits carries the outdoor constraint, so none has both outdoor and
\* indoor_only, whatever the template.
C18_NoOutdoorSlotInHostileWeather ==
    Called("_build_slots") =>
        LET wp == build_weather_profile(call.weather)
        IN  (wp.very_cold \/ wp.rain \/ wp.snow) =>
                \A i \in 1..Len(call.result) :
                    ~Contains(call.result[i].constraints, "outdoor")

\* C19: order_stops_nearest_neighbor is a fixed point on its own output,
\* also for lists with equidistant stops.
C19_OrderFixedPoint ==
    (Called("order_stops_nearest_neighbor") /\ "again" \in DOMAIN call) =>
        call.again = call.result

\* a list with two stops equally far from the first was reordered, and the
\* result ordered again
C19_Witness ==
    /\ Called("order_stops_nearest_neighbor")
    /\ "again" \in DOMAIN call
    /\ call.result # call.stops
    /\ \E i, j \in 2..Len(call.stops) :
          /\ i # j
          /\ _dist2(call.stops[1], call.stops[i]) = _dist2(call.stops[1], call.stops[j])
          /\ _dist2(call.stops[1], call.stops[i]) > 0

\* the coordinates of a stop list
Coordinates(stops) == [i \in 1..Len(stops) |-> <<stops[i].lat, stops[i].lng>>]

\* C20: order_stops_nearest_neighbor returns a permutation of its input
\* with the input's first stop first; each later stop is, among the stops
\* not yet placed, the nearest (squared planar distance) to the stop placed
\* before it, the first in input order on ties; (0,0),(0,3),(0,1),(0,2)
\* comes out as (0,0),(0,1),(0,2),(0,3).
C20_NearestNeighbourOrder ==
    Called("order_stops_nearest_neighbor") =>
        LET s == call.stops
            r == call.result
        IN  /\ Len(r) = Len(s)
            /\ Range(r) = Range(s)
            /\ s # <<>> => r[1] = s[1]
            /\ \A k \in 2..Len(r) : \A j \in (k + 1)..Len(r) :
                  /\ _dist2(r[k - 1], r[k]) <= _dist2(r[k - 1], r[j])
                  /\ _dist2(r[k - 1], r[k]) = _dist2(r[k - 1], r[j]) =>
                        r[k].order_index < r[j].order_index
            /\ Coordinates(s) = <<<<0, 0>>, <<0, 3>>, <<0, 1>>, <<0, 2>>>> =>
                  Coordinates(r) = <<<<0, 0>>, <<0, 1>>, <<0, 2>>, <<0, 3>>>>

\* the stops of the example were ordered
C20_Witness ==
    /\ Called("order_stops_nearest_neighbor")
    /\ Coordinates(call.stops) = <<<<0, 0>>, <<0, 3>>, <<0, 1>>, <<0, 2>>>>
    /\ Coordinates(call.result) = <<<<0, 0>>, <<0, 1>>, <<0, 2>>, <<0, 3>>>>

\* the deterministic selector made the selection of this run: no language
\* model is configured, or it failed
DeterministicSelector == ~inputs_json.use_llm \/ LLMFailed

\* the candidates of the i-th slot that _rank_slots keeps as options, in
\* the order the provider returned them
KeptCandidates(i) ==
    LET gen_inputs == TaskGenerateInputs(inputs_json)
        slot_constraints == DedupKeepFirst(gen_inputs.constraints \o slots[i].constraints)
    IN  Flatten([k \in 1..Len(CandidatesOf(i)) |->
                    RankCandidate(CandidatesOf(i)[k], slots[i], get_daypart(dt_local),
                                  gen_inputs.discovery_mode, slot_constraints)])

\* the first position of the greatest score in a list of options
FirstMaxScore(options) ==
    CHOOSE k \in 1..Len(options) :
        /\ \A j \in 1..Len(options) : options[j].score <= options[k].score
        /\ \A j \in 1..(k - 1) : options[j].score < options[k].score

\* the stops a second run of generate with the deterministic selector
\* returns for the same inputs, dt_local, weather and cached candidates
SecondRunStops ==
    LET gen_inputs == TaskGenerateInputs(inputs_json)
        slots2 == _build_slots(dt_local, TemplateSlots, weather[1])
        ranked2 == [i \in 1..Len(slots2) |->
                       RankSlot(slots2[i],
                                CacheGet(candCache, CacheKey(slots2[i].categories)),
                                get_daypart(dt_local), gen_inputs.discovery_mode,
                                gen_inputs.constraints)]
    IN  order_stops_nearest_neighbor(
            _materialize_stops(_deterministic_fallback(Context, ranked2)))

StopsOfSlot(i) == SelectSeq(chosen_stops, LAMBDA st : st.slot_id = slots[i].slot_id)

\* C22: generate returns at most one stop per built slot; a slot whose
\* candidates are none or all closed gives no stop and the run goes on,
\* and every slot with at least one option gives its stop.
C22_OneStopPerSlotWithOptions ==
    AfterMaterialize =>
        /\ Len(chosen_stops) <= Len(slots)
        /\ Len(filled) = Len(slots)
        /\ \A i \in 1..Len(slots) :
              Len(StopsOfSlot(i)) = IF KeptCandidates(i) = <<>> THEN 0 ELSE 1

\* a plan was persisted in which a slot without any open candidate comes
\* before a slot that gave a stop
C22_Witness ==
    /\ pc = "done"
    /\ \E i, j \in 1..Len(slots) :
          /\ i < j
          /\ KeptCandidates(i) = <<>>
          /\ Len(StopsOfSlot(j)) = 1

\* the step is one of a generate_plan_task run that ends in failure
RunFails == pc # "failed" /\ pc' = "failed"

\* the step is the one that ends a generate_plan_task run with success
RunSucceeds == pc = "persist" /\ pc' = "done"

C24_RecommendedMode ==
    \A i \in 1..Len(dbLegs) :
        dbLegs[i].recommended_mode =
            IF dbLegs[i].modes_json["walk"].distance_m <= 1500
               /\ ~Contains(inputs_json.constraints, "no_walk")
            THEN "walk" ELSE "drive"

\* the slots of the run are built
AfterBuild == pc \in {"rank", "materialize", "order", "persist", "done"}

\* C28: the slots generate_plan_task builds for a plan are those of the
\* template adjusted with the energy and duration_hours stored in the
\* plan's inputs_json.
C28_TaskUsesEnergyAndDuration ==
    AfterBuild =>
        slots = _build_slots(dt_local,
                             choose_template(TaskGenerateInputs(inputs_json).intent,
                                             TaskGenerateInputs(inputs_json).when_selection,
                                             HourOf(dt_local), inputs_json.duration_hours,
                                             EnergyStr(inputs_json)).slots,
                             weather[1])

\* C30: a plan whose last finished generate_plan_task run failed (the
\* handler stored the error, no later run cleared it) is never ready,
\* whatever the API views and their tasks do.
C30_ReadyOnlyThroughGeneration ==
    last_error_code # "None" => status # "ready"

\* the deduplicated results of the nearby searches of a fetch_candidates call
DeduplicatedCandidates(categories) ==
    UniqueById(Flatten([i \in 1..Len(categories) |-> nearby_search(categories[i])]))

\* the place carries what only a Details call gives
Enriched(place) == place.periods # <<>> \/ place.business_status # "None"

\* C26: with enrich_opening_hours, fetch_candidates enriches only the first
\* enrich_limit deduplicated results (at most enrich_limit Details calls),
\* and the list it returns still holds every deduplicated candidate, the
\* ones beyond the limit un-enriched.
C26_EnrichLimitKeepsCandidates ==
    (call.fn = "fetch_candidates" /\ "again" \in DOMAIN call
     /\ call.enrich_opening_hours) =>
        LET unique == DeduplicatedCandidates(call.categories)
            returned == call.again.value
        IN  /\ ~call.again.raised
            /\ Len(returned) = Len(unique)
            /\ \A i \in 1..Len(unique) :
                  /\ returned[i].place_id = unique[i].place_id
                  /\ i > call.enrich_limit => ~Enriched(returned[i])
            /\ Cardinality({i \in 1..Len(returned) : Enriched(returned[i])})
                  <= call.enrich_limit

\* C27: for every weather snapshot, temp and feels_like missing included,
\* the profile is pleasant only if 10 <= feels_like <= 22 and rain, snow
\* and windy are all false; pleasant never comes with rain or snow.
C27_PleasantOnlyWhenMildAndDry ==
    Called("build_weather_profile") =>
        LET feels == IF call.weather.has_feels_like THEN call.weather.feels_like
                     ELSE call.weather.temp
            wp == call.result
        IN  /\ wp.pleasant =>
                  /\ feels # NoTemp
                  /\ 10 <= feels /\ feels <= 22
                  /\ ~wp.rain /\ ~wp.snow /\ ~wp.windy
            /\ ~(wp.pleasant /\ (wp.rain \/ wp.snow))

\* the sum of the deltas of the finished safe_cache_incr calls
RECURSIVE TotalAdded(_)
TotalAdded(ws) ==
    IF ws = {} THEN 0
    ELSE LET w == CHOOSE x \in ws : TRUE
         IN  workers[w].added + TotalAdded(ws \ {w})

\* every worker is between two safe_cache_incr calls, and one was made
IncrementsDone ==
    /\ DOMAIN workers = Workers
    /\ \A w \in Workers : workers[w].pc = "idle"
    /\ \E w \in Workers : workers[w].calls > 0

\* C25: after any interleaving of increments by concurrent workers on one
\* counter key, the key missing at first included, the counter holds the
\* sum of the deltas.
C25_CounterIsSumOfDeltas ==
    IncrementsDone =>
        /\ CounterKey \in DOMAIN metrics
        /\ metrics[CounterKey] = TotalAdded(Workers)

\* both runs of the task are over
RunsOver ==
    /\ DOMAIN workers = Workers
    /\ \A w \in Workers : workers[w].pc \in {"done", "failed"}

\* the stops and legs a run persists
RowsOfRun(w) ==
    LET created_stops == CreateStops(workers[w].chosen_stops)
    IN  [stops |-> created_stops,
         legs |-> CreateLegs(created_stops, inputs_json.constraints, {})]

\* C29: once two interleaved runs of generate_plan_task for one plan are
\* over, the persisted stops and legs are those of a single run: order_index
\* is 0..N-1 without duplicates and every leg joins two stops of that run
\* with consecutive order_index.
C29_RowsOfASingleRun ==
    RunsOver =>
        /\ \A i \in 1..Len(dbStops) : dbStops[i].order_index = i - 1
        /\ \A k \in 1..Len(dbLegs) :
              /\ dbLegs[k].to_stop = dbLegs[k].from_stop + 1
              /\ dbLegs[k].to_stop < Len(dbStops)
        /\ \/ /\ \A w \in Workers : workers[w].pc = "failed"
              /\ dbStops = <<>>
              /\ dbLegs = <<>>
           \/ \E w \in Workers :
                 /\ workers[w].pc = "done"
                 /\ dbStops = RowsOfRun(w).stops
                 /\ dbLegs = RowsOfRun(w).legs

\* two runs with different results both committed, the second while the
\* first was still generating or waiting for the row
C29_Witness ==
    /\ RunsOver
    /\ \A w \in Workers : workers[w].pc = "done"
    /\ workers["w1"].chosen_stops # workers["w2"].chosen_stops
    /\ Len(dbStops) >= 2
    /\ Len(dbLegs) >= 1

====
